---- MODULE Spec2Model ----
(***************************************************************************)
(* SavePhotoBot (server.js): the POST /webhook handler, the folder         *)
(* resolution with its 24 h name cache, the message-id dedup set and the   *)
(* save-then-notify pipeline of an image event.                            *)
(*                                                                         *)
(* JavaScript strings are sequences of one-character strings; the empty    *)
(* sequence stands for every falsy string or absent field (undefined, ""). *)
(* Node runs one callback at a time: an action is the code that runs       *)
(* between two suspension points (await) of one handler invocation.        *)
(***************************************************************************)
EXTENDS Integers, Sequences, FiniteSets, TLC

\* ------------------------------------------------------------- bounds
MaxAffix == 2
MaxDeliveries == 2
MaxBatch == 2
MaxTicks == 1
MaxImages == 1
MaxFaults == 1

\* ------------------------------------------------------------- strings
WhiteSpace == {" ", "\t", "\n"}
Illegal == {"\\", "/", ":", "*", "?", "\"", "<", ">", "|"}

RECURSIVE ReplaceIllegal(_)
\* .replace(/[\\/:*?"<>|]/g, "_")
ReplaceIllegal(s) ==
  IF s = <<>> THEN <<>>
  ELSE <<IF Head(s) \in Illegal THEN "_" ELSE Head(s)>> \o ReplaceIllegal(Tail(s))

RECURSIVE CollapseSpace(_)
\* .replace(/\s+/g, " "): every maximal run of whitespace becomes one space
CollapseSpace(s) ==
  IF s = <<>> THEN <<>>
  ELSE IF Head(s) \in WhiteSpace
       THEN IF Len(s) > 1 /\ s[2] \in WhiteSpace
            THEN CollapseSpace(Tail(s))
            ELSE <<" ">> \o CollapseSpace(Tail(s))
       ELSE <<Head(s)>> \o CollapseSpace(Tail(s))

RECURSIVE TrimStart(_)
TrimStart(s) ==
  IF s # <<>> /\ Head(s) \in WhiteSpace THEN TrimStart(Tail(s)) ELSE s

RECURSIVE TrimEnd(_)
TrimEnd(s) ==
  IF s # <<>> /\ s[Len(s)] \in WhiteSpace THEN TrimEnd(SubSeq(s, 1, Len(s) - 1)) ELSE s

\* String.prototype.trim
Trim(s) == TrimEnd(TrimStart(s))

MaxFolderLen == 80

\* .slice(0, n)
SliceHead(s, n) == SubSeq(s, 1, IF Len(s) < n THEN Len(s) ELSE n)

\* .slice(-n)
SliceTail(s, n) == SubSeq(s, IF Len(s) > n THEN Len(s) - n + 1 ELSE 1, Len(s))

\* (mutant) the name is not cut
sanitizeWithoutSlice(name) == Trim(CollapseSpace(ReplaceIllegal(name)))

\* String(name || "").replace(...).replace(...).trim().slice(0, 80)
\* (each call of the chain is computed once, on the value of the one before)
sanitizeFolderName(name) ==
  CHOOSE out \in {SliceHead(trimmed, MaxFolderLen) :
                    trimmed \in {Trim(collapsed) :
                      collapsed \in {CollapseSpace(replaced) :
                        replaced \in {ReplaceIllegal(name)}}}} : TRUE

RECURSIVE Digits(_)
\* String(n) for a natural number
Digits(n) ==
  LET d == <<"0", "1", "2", "3", "4", "5", "6", "7", "8", "9">>
  IN IF n < 10 THEN <<d[n + 1]>> ELSE Digits(n \div 10) \o <<d[(n % 10) + 1]>>

\* (mutant) no padding
padNone(n) == Digits(n)

\* String(n).padStart(2, "0")
pad(n) == IF Len(Digits(n)) < 2 THEN <<"0">> \o Digits(n) ELSE Digits(n)

\* ------------------------------------------------------------- clock
\* Date.now() is `now`, in milliseconds since the start of the run; the run
\* starts on 2024-01-15 at 10:30:00 local time and stays inside that month.
Epoch == [year |-> 2024, month |-> 1, date |-> 15, secondOfDay |-> (10 * 60 * 60) + (30 * 60)]

\* new Date(): the local calendar fields read by makeFileName
DateParts(t) ==
  LET sec == Epoch.secondOfDay + (t \div 1000)
      sod == sec % 86400
  IN [year |-> Epoch.year, month |-> Epoch.month, date |-> Epoch.date + (sec \div 86400),
      hours |-> sod \div 3600, minutes |-> (sod % 3600) \div 60, seconds |-> sod % 60]

makeFileName(messageId, ext, t) ==
  LET d == DateParts(t)
  IN Digits(d.year) \o <<"-">> \o pad(d.month) \o <<"-">> \o pad(d.date)
     \o <<"_">> \o pad(d.hours) \o <<"-">> \o pad(d.minutes) \o <<"-">> \o pad(d.seconds)
     \o <<"_">> \o messageId \o <<".">> \o ext

CACHE_TTL_MS == 24 * 60 * 60 * 1000
DEDUP_TTL_MS == 10 * 60 * 1000

\* ------------------------------------------------------------- identifiers
ADMIN_USER_ID == <<"U", "a", "d", "m">>
U1 == <<"U", "s", "e", "r", "0", "0", "1">>
G1 == <<"C", "0", "a", "b", "c", "d", "e", "1">>
G2 == <<"C", "9", "a", "b", "c", "d", "e", "2">>
R1 == <<"R", "0", "r", "s", "t", "u", "v", "1">>
M1 == <<"1", "2", "3", "4", "5">>
M2 == <<"7", "7">>
Tok == <<"t", "k">>

Src(t, u, g, r) == [type |-> t, userId |-> u, groupId |-> g, roomId |-> r]
Ev(t, mt, mid, src, tok) ==
  [type |-> t, message |-> [type |-> mt, id |-> mid], source |-> src, replyToken |-> tok]

UserSrc == Src("user", U1, <<>>, <<>>)
GroupSrc(g) == Src("group", U1, g, <<>>)
RoomSrc == Src("room", U1, <<>>, R1)

\* The events a delivery may carry.
Events ==
       {Ev("follow", "", <<>>, UserSrc, tok) : tok \in {Tok, <<>>}}
  \cup {Ev("follow", "", <<>>, GroupSrc(G1), Tok), Ev("join", "", <<>>, GroupSrc(G1), Tok)}
  \cup {Ev("message", "text", M1, s, Tok) : s \in {UserSrc, GroupSrc(G1)}}
  \cup {Ev("message", "image", m, s, Tok) : m \in {M1, M2}, s \in {UserSrc, GroupSrc(G1)}}
  \cup {Ev("message", "image", M1, s, Tok) :
          s \in {GroupSrc(G2), RoomSrc, Src("group", U1, <<>>, <<>>),
                 Src("room", U1, <<>>, <<>>), Src("", <<>>, <<>>, <<>>)}}
  \cup {Ev("message", "image", M2, UserSrc, <<>>),
        Ev("message", "sticker", M2, UserSrc, Tok),
        Ev("unfollow", "", <<>>, UserSrc, <<>>)}

\* The display names a group summary may carry (groupName may be absent).
GroupNames == {<<>>, <<"a", "/", " ", " ", "b">>}

\* The content-type header of a fetched stream (absent, or a media type).
ContentTypes == {<<>>, <<"i", "m", "a", "g", "e", "/", "p", "n", "g">>}

\* The batches of a delivery: req.body.events, possibly empty.
Batches == UNION {[1..n -> Events] : n \in 0..MaxBatch}

\* The image events of concurrent deliveries, and their batches.
ImageEvents ==
  {Ev("message", "image", m, GroupSrc(G1), Tok) : m \in {M1, M2}}
  \cup {Ev("message", "image", M1, UserSrc, Tok), Ev("message", "image", M1, GroupSrc(G2), Tok)}

ImageBatches == UNION {[1..n -> ImageEvents] : n \in 1..MaxImages}

Deliveries == 1..MaxDeliveries

\* ------------------------------------------------------------- state
VARIABLES
  now,             \* Date.now(), ms since the start of the run
  ticks,           \* how many times the clock has advanced
  nameCache,       \* the Map nameCache: key -> [name, ts]
  seenMessageIds,  \* the Set seenMessageIds
  timers,          \* pending setTimeout callbacks: [id, due]
  dirs,            \* the directories that exist under images/
  files,           \* the files under images/: <<folder, file>> -> [state, opens]
  faults,          \* how many more calls of the environment may fail
  h,               \* one invocation of the POST /webhook handler per delivery
  log,             \* per delivery, what the invocation has done so far, in order
  call             \* a helper called on its own: [fn, arg, ext, t, out]

vars == <<now, ticks, nameCache, seenMessageIds, timers, dirs, files, faults, h, log, call>>

\* The state as one value, so that the code run by one callback composes.
St ==
  [now |-> now, nameCache |-> nameCache, seen |-> seenMessageIds, timers |-> timers,
   dirs |-> dirs, files |-> files, faults |-> faults, h |-> h, log |-> log]

Commit(S) ==
  \E T \in {S} :
    /\ nameCache' = T.nameCache
    /\ seenMessageIds' = T.seen
    /\ timers' = T.timers
    /\ dirs' = T.dirs
    /\ files' = T.files
    /\ faults' = T.faults
    /\ h' = T.h
    /\ log' = T.log
    /\ UNCHANGED <<now, ticks, call>>

NoCall == [fn |-> "none", arg |-> <<>>, ext |-> <<>>, t |-> 0, out |-> <<>>]

Idle ==
  [pc |-> "idle", events |-> <<>>, res |-> 0, i |-> 0,
   folderName |-> <<>>, fileName |-> <<>>, opened |-> FALSE]

Start(budget) ==
  /\ now = 0
  /\ ticks = 0
  /\ nameCache = <<>>
  /\ seenMessageIds = {}
  /\ timers = {}
  /\ dirs = {}
  /\ files = <<>>
  /\ faults = budget
  /\ h = [d \in Deliveries |-> Idle]
  /\ log = [d \in Deliveries |-> <<>>]
  /\ call = NoCall

\* Every call of a batch may fail, the push of the catch block included.
Init == Start(2 * MaxBatch)

\* At most MaxFaults calls fail.
InitImages == Start(MaxFaults)

\* One entry of the log: event index i (0: the delivery itself), the operation,
\* its kind and the string it is about. The entries of the name cache and of
\* the dedup set also keep the time (t), the others keep 0.
Note(S, d, i, op, k, x) ==
  [S EXCEPT !.log[d] = Append(@, [i |-> i, op |-> op, k |-> k, x |-> x, t |-> 0])]

NoteAt(S, d, i, op, k, x) ==
  [S EXCEPT !.log[d] = Append(@, [i |-> i, op |-> op, k |-> k, x |-> x, t |-> S.now])]

Goto(S, d, pc) == [S EXCEPT !.h[d].pc = pc]

\* A call of the environment fails: one fault less is left.
Fault(S) == [S EXCEPT !.faults = @ - 1]

\* ------------------------------------------------------------- helpers of server.js
Str_private == <<"p", "r", "i", "v", "a", "t", "e">>
Str_unknown == <<"u", "n", "k", "n", "o", "w", "n">>
Str_group_ == <<"g", "r", "o", "u", "p", "_">>
Str_room_ == <<"r", "o", "o", "m", "_">>
Str_groupKey == <<"g", "r", "o", "u", "p", ":">>
Str_UnknownGroup == <<"U", "n", "k", "n", "o", "w", "n", "G", "r", "o", "u", "p">>
Str_jpg == <<"j", "p", "g">>
Str_jpeg == <<"j", "p", "e", "g">>
Str_png == <<"p", "n", "g">>
Str_webp == <<"w", "e", "b", "p">>

\* String.prototype.includes
Includes(s, sub) ==
  \E k \in 1..(Len(s) - Len(sub) + 1) : SubSeq(s, k, k + Len(sub) - 1) = sub

\* String.prototype.toLowerCase, on the letters A-Z
ToLowerCase(s) ==
  LET up == <<"A", "B", "C", "D", "E", "F", "G", "H", "I", "J", "K", "L", "M",
              "N", "O", "P", "Q", "R", "S", "T", "U", "V", "W", "X", "Y", "Z">>
      lo == <<"a", "b", "c", "d", "e", "f", "g", "h", "i", "j", "k", "l", "m",
              "n", "o", "p", "q", "r", "s", "t", "u", "v", "w", "x", "y", "z">>
  IN [k \in 1..Len(s) |->
        IF \E j \in 1..26 : up[j] = s[k]
        THEN lo[CHOOSE j \in 1..26 : up[j] = s[k]]
        ELSE s[k]]

\* the extension guessed from the content-type header
ExtOf(contentType) ==
  LET ct == ToLowerCase(contentType)
  IN IF Includes(ct, Str_png) THEN Str_png
     ELSE IF Includes(ct, Str_jpeg) THEN Str_jpg
     ELSE IF Includes(ct, Str_jpg) THEN Str_jpg
     ELSE IF Includes(ct, Str_webp) THEN Str_webp
     ELSE Str_jpg

\* (mutant) every group shares one key
CacheKeyShared(groupId) == Str_groupKey

\* const key = `group:${groupId}`
CacheKey(groupId) == Str_groupKey \o groupId

\* (mutant) an entry that is exactly CACHE_TTL_MS old is still served
CacheFreshInclusive(S, groupId) ==
  /\ CacheKey(groupId) \in DOMAIN S.nameCache
  /\ S.now - S.nameCache[CacheKey(groupId)].ts <= CACHE_TTL_MS

\* getGroupName, up to its first await: the cached name is served only while
\* the entry exists and Date.now() - cached.ts < CACHE_TTL_MS
CacheFresh(S, groupId) ==
  /\ CacheKey(groupId) \in DOMAIN S.nameCache
  /\ S.now - S.nameCache[CacheKey(groupId)].ts < CACHE_TTL_MS

\* (mutant) the id is added and never deleted
rememberForever(S, id) == [S EXCEPT !.seen = @ \cup {id}]

\* rememberMessageId: add the id, and delete it again 10 minutes later
rememberMessageId(S, id) ==
  [S EXCEPT !.seen = @ \cup {id},
            !.timers = @ \cup {[id |-> id, due |-> S.now + DEDUP_TTL_MS]}]

\* ------------------------------------------------------------- the handler's code
Event(S, d, i) == S.h[d].events[i]

\* (mutant) the catch block reports the error to the conversation of the event
CatchNotifySource(S, d, i, why) ==
  LET src == Event(S, d, i).source
      to == IF src.groupId # <<>> THEN src.groupId
            ELSE IF src.roomId # <<>> THEN src.roomId ELSE src.userId
  IN Goto(Note(Note(S, d, i, "caught", why, <<>>), d, i, "push", "error", to), d, "errpush")

\* (mutant) the catch block answers the sender with the event's reply token
CatchReplyError(S, d, i, why) ==
  Goto(Note(Note(S, d, i, "caught", why, <<>>), d, i, "reply", "error",
            Event(S, d, i).replyToken), d, "reply")

\* (mutant) the catch block takes the message id out of the dedup set
CatchForget(S, d, i, why) ==
  Goto(Note(Note([S EXCEPT !.seen = @ \ {Event(S, d, i).message.id}],
                 d, i, "caught", why, <<>>), d, i, "push", "error", ADMIN_USER_ID),
       d, "errpush")

\* the catch block, up to its await: log, then push the error text to the administrator
Catch(S, d, i, why) ==
  Goto(Note(Note(S, d, i, "caught", why, <<>>), d, i, "push", "error", ADMIN_USER_ID),
       d, "errpush")

\* getSourceFolder has returned folder: the handler awaits that value
Resolved(S, d, i, folder) ==
  Goto([Note(S, d, i, "folder", "", folder) EXCEPT !.h[d].folderName = folder], d, "folder")

GroupFolder(name, groupId) == Str_group_ \o name \o <<"_">> \o SliceTail(groupId, 6)

\* (mutant) a room is named after its id even when the id is missing
getSourceFolderAnyRoom(S, d, i) ==
  LET src == Event(S, d, i).source
  IN IF src.type = "user" THEN Resolved(S, d, i, Str_private)
     ELSE IF src.type = "group" /\ src.groupId # <<>>
     THEN IF CacheFresh(S, src.groupId)
          THEN Resolved(NoteAt(S, d, i, "cacheHit", "", src.groupId), d, i,
                        GroupFolder(S.nameCache[CacheKey(src.groupId)].name, src.groupId))
          ELSE Goto(NoteAt(S, d, i, "lookup", "", src.groupId), d, "lookup")
     ELSE IF src.type = "room"
     THEN Resolved(S, d, i, Str_room_ \o SliceTail(src.roomId, 6))
     ELSE Resolved(S, d, i, Str_unknown)

\* getSourceFolder(event), with getGroupName, up to the first await
getSourceFolder(S, d, i) ==
  LET src == Event(S, d, i).source
  IN IF src.type = "user" THEN Resolved(S, d, i, Str_private)
     ELSE IF src.type = "group" /\ src.groupId # <<>>
     THEN IF CacheFresh(S, src.groupId)
          THEN Resolved(NoteAt(S, d, i, "cacheHit", "", src.groupId), d, i,
                        GroupFolder(S.nameCache[CacheKey(src.groupId)].name, src.groupId))
          ELSE Goto(NoteAt(S, d, i, "lookup", "", src.groupId), d, "lookup")
     ELSE IF src.type = "room" /\ src.roomId # <<>>
     THEN Resolved(S, d, i, Str_room_ \o SliceTail(src.roomId, 6))
     ELSE Resolved(S, d, i, Str_unknown)

\* getGroupSummary resolved with summary.groupName: getGroupName stores the
\* sanitized name with the current time, and getSourceFolder returns
LookupResolved(S, d, i, groupName) ==
  LET groupId == Event(S, d, i).source.groupId
      name == sanitizeFolderName(IF groupName # <<>> THEN groupName ELSE Str_UnknownGroup)
      S1 == Note(S, d, i, "lookupOk", "", groupName)
      S2 == [S1 EXCEPT !.nameCache = (CacheKey(groupId) :> [name |-> name, ts |-> S.now]) @@ @]
  IN Resolved(NoteAt(S2, d, i, "cacheSet", "", name), d, i, GroupFolder(name, groupId))

\* (mutant) the rejection of getGroupSummary reaches the catch block of the loop
LookupRejectedRaises(S, d, i) ==
  Catch(Note(S, d, i, "lookupFail", "", Event(S, d, i).source.groupId), d, i, "lookup")

\* (mutant) a rejected getGroupSummary stores the placeholder name
LookupRejectedCaches(S, d, i) ==
  LET groupId == Event(S, d, i).source.groupId
      S1 == [S EXCEPT !.nameCache =
               (CacheKey(groupId) :> [name |-> Str_UnknownGroup, ts |-> S.now]) @@ @]
  IN Resolved(Note(S1, d, i, "lookupFail", "", groupId), d, i,
              Str_group_ \o SliceTail(groupId, 6))

\* getGroupSummary rejected: the catch of getSourceFolder returns group_{tail}
LookupRejected(S, d, i) ==
  LET groupId == Event(S, d, i).source.groupId
  IN Resolved(Note(S, d, i, "lookupFail", "", groupId), d, i,
              Str_group_ \o SliceTail(groupId, 6))

RECURSIVE Loop(_, _, _)

\* `continue`, or the end of the try block: the event is over, on to the next
Continue(S, d, i) == Loop(Note(S, d, i, "end", "", <<>>), d, i + 1)

\* (mutant) the reply is not awaited: the loop goes on while it is in flight
ReplyNoWait(S, d, i, k) ==
  Continue(Note(S, d, i, "reply", k, Event(S, d, i).replyToken), d, i)

\* client.replyMessage(event.replyToken, ...), awaited
Reply(S, d, i, k) ==
  Goto(Note(S, d, i, "reply", k, Event(S, d, i).replyToken), d, "reply")

\* (mutant) the catch block leaves the loop
AfterCatchAbort(S, d, i) == Goto(S, d, "done")

\* the end of the catch block: on to the next event
AfterCatch(S, d, i) == Loop(S, d, i + 1)

\* (mutant) the image branch does not test the dedup set
ImageNoDedup(S, d, i) ==
  LET messageId == Event(S, d, i).message.id
  IN getSourceFolder(
       NoteAt(rememberMessageId(S, messageId), d, i, "remember", "", messageId), d, i)

\* the image branch up to its first await
Image(S, d, i) ==
  LET messageId == Event(S, d, i).message.id
  IN IF messageId \in S.seen
     THEN Continue(NoteAt(S, d, i, "dup", "", messageId), d, i)
     ELSE getSourceFolder(
            NoteAt(rememberMessageId(S, messageId), d, i, "remember", "", messageId), d, i)

\* (mutant) every message that is not a text is saved as an image
BodyAnyMessage(S, d, i) ==
  LET event == Event(S, d, i)
      srcType == event.source.type
      In(k) == Note(S, d, i, "branch", k, <<>>)
  IN IF event.type = "follow"
     THEN IF srcType = "user" /\ event.replyToken # <<>>
          THEN Reply(In("follow"), d, i, "follow")
          ELSE Continue(In("follow"), d, i)
     ELSE IF event.type = "join"
     THEN Continue(In("join"), d, i)
     ELSE IF event.type = "message" /\ event.message.type = "text"
     THEN IF srcType = "user" /\ event.replyToken # <<>>
          THEN Reply(In("text"), d, i, "text")
          ELSE Continue(In("text"), d, i)
     ELSE IF event.type = "message"
     THEN Image(In("image"), d, i)
     ELSE Continue(S, d, i)

\* the body of the loop for event i, up to its first await
Body(S, d, i) ==
  LET event == Event(S, d, i)
      srcType == event.source.type
      In(k) == Note(S, d, i, "branch", k, <<>>)
  IN IF event.type = "follow"
     THEN IF srcType = "user" /\ event.replyToken # <<>>
          THEN Reply(In("follow"), d, i, "follow")
          ELSE Continue(In("follow"), d, i)
     ELSE IF event.type = "join"
     THEN Continue(In("join"), d, i)
     ELSE IF event.type = "message" /\ event.message.type = "text"
     THEN IF srcType = "user" /\ event.replyToken # <<>>
          THEN Reply(In("text"), d, i, "text")
          ELSE Continue(In("text"), d, i)
     ELSE IF event.type = "message" /\ event.message.type = "image"
     THEN Image(In("image"), d, i)
     ELSE Continue(S, d, i)

\* for (const event of events), from event i on, up to the next await
Loop(S, d, i) ==
  IF i > Len(S.h[d].events)
  THEN Goto([S EXCEPT !.h[d].i = i], d, "done")
  ELSE Body([S EXCEPT !.h[d].i = i], d, i)

\* res.sendStatus(200)
Ack(S, d) == Note([S EXCEPT !.h[d].res = 200], d, 0, "ack", "", <<>>)

\* (mutant) the response is sent once the loop has run
HandlerAckLast(S, d) == Ack(Loop(S, d, 1), d)

\* the async handler of POST /webhook, up to its first await
Handler(S, d) == Loop(Ack(S, d), d, 1)

\* ------------------------------------------------------------- actions
FilePath(S, d) == <<S.h[d].folderName, S.h[d].fileName>>

\* A delivery passes line.middleware (its signature is valid) and the handler
\* runs on its batch up to the first await. Deliveries are numbered in order
\* of arrival.
Deliver(d, batches) ==
  /\ h[d].pc = "idle"
  /\ IF d = 1 THEN TRUE ELSE h[d - 1].pc # "idle"
  /\ \E events \in batches :
       Commit(Handler([St EXCEPT !.h[d].events = events], d))

\* One delivery carrying any batch.
Webhook == Deliver(1, Batches)

\* One more delivery carrying image events.
WebhookImages(d) == Deliver(d, ImageBatches)

\* A delivery whose signature line.middleware refuses: the handler never runs.
WebhookRefused ==
  /\ h[1].pc = "idle"
  /\ \E status \in {401, 500} :
       Commit([St EXCEPT !.h[1].pc = "refused", !.h[1].res = status])

\* client.getGroupSummary settles: getGroupName stores the sanitized name, or
\* getSourceFolder catches the rejection and falls back to the id's tail.
LookupSettle(d) ==
  /\ h[d].pc = "lookup"
  /\ \/ \E groupName \in GroupNames : Commit(LookupResolved(St, d, h[d].i, groupName))
     \/ /\ faults > 0
        /\ Commit(LookupRejected(Fault(St), d, h[d].i))

\* The handler resumes with folderName: it makes the directory when it is
\* missing (mkdirSync may throw) and calls client.getMessageContent.
EnsureDir(d) ==
  /\ h[d].pc = "folder"
  /\ LET i == h[d].i
         folder == h[d].folderName
         Fetch(S) == Goto(Note(Note(S, d, i, "dir", "", folder), d, i, "fetch", "",
                               Event(S, d, i).message.id), d, "fetch")
     IN IF folder \in dirs
        THEN Commit(Fetch(St))
        ELSE \/ Commit(Fetch([St EXCEPT !.dirs = @ \cup {folder}]))
             \/ /\ faults > 0
                /\ Commit(Catch(Fault(St), d, i, "mkdir"))

\* (mutant) a rejected getMessageContent is called again
FetchSettleRetry(d) ==
  /\ h[d].pc = "fetch"
  /\ faults > 0
  /\ LET i == h[d].i
         messageId == Event(St, d, i).message.id
     IN Commit(Goto(Note(Note(Fault(St), d, i, "fetchFail", "", messageId),
                         d, i, "fetch", "", messageId), d, "fetch"))

\* client.getMessageContent settles: on a stream, the extension and the file
\* name are computed and saveStreamToFile opens the file for writing.
FetchSettle(d) ==
  /\ h[d].pc = "fetch"
  /\ LET i == h[d].i
         messageId == Event(St, d, i).message.id
     IN \/ \E contentType \in ContentTypes, opened \in {TRUE} \cup {FALSE : x \in 1..faults} :
             LET fileName == makeFileName(messageId, ExtOf(contentType), now)
                 path == <<h[d].folderName, fileName>>
                 opens == IF path \in DOMAIN files THEN files[path].opens ELSE 0
                 S0 == IF opened THEN St ELSE Fault(St)
                 S1 == [S0 EXCEPT !.h[d].fileName = fileName, !.h[d].opened = opened]
                 S2 == IF opened
                       THEN [S1 EXCEPT !.files =
                               (path :> [state |-> "partial", opens |-> opens + 1]) @@ @]
                       ELSE S1
             IN Commit(Goto(Note(S2, d, i, "open", IF opened THEN "ok" ELSE "failed",
                                 fileName), d, "copy"))
        \/ /\ faults > 0
           /\ Commit(Catch(Note(Fault(St), d, i, "fetchFail", "", messageId), d, i, "fetch"))

\* (mutant) a private chat is answered as soon as the file is written
CopySettleReplyFirst(d) ==
  /\ h[d].pc = "copy"
  /\ h[d].opened
  /\ LET i == h[d].i
         event == Event(St, d, i)
         path == FilePath(St, d)
         S1 == Note([St EXCEPT !.files[path].state = "complete"], d, i, "written", "",
                    h[d].fileName)
     IN IF event.source.type = "user" /\ event.replyToken # <<>>
        THEN Commit(Reply(S1, d, i, "image"))
        ELSE Commit(Goto(Note(S1, d, i, "push", "saved", ADMIN_USER_ID), d, "push"))

\* saveStreamToFile settles: "finish" resolves it; an error of the write stream
\* or of the content stream rejects it and leaves the file as it is.
CopySettle(d) ==
  /\ h[d].pc = "copy"
  /\ LET i == h[d].i
         path == FilePath(St, d)
     IN \/ /\ h[d].opened
           /\ Commit(Goto(Note(Note([St EXCEPT !.files[path].state = "complete"],
                                    d, i, "written", "", h[d].fileName),
                               d, i, "push", "saved", ADMIN_USER_ID), d, "push"))
        \/ /\ h[d].opened
           /\ faults > 0
           /\ \E k \in {"stream", "write"} :
                Commit(Catch(Note(Fault(St), d, i, "copyFail", k, h[d].fileName), d, i, k))
        \/ /\ ~h[d].opened
           /\ Commit(Catch(Note(St, d, i, "copyFail", "write", h[d].fileName), d, i, "write"))

\* (mutant) a rejected success push is swallowed and the reply is sent anyway
PushSettleSwallow(d) ==
  /\ h[d].pc = "push"
  /\ LET i == h[d].i
         event == Event(St, d, i)
         Go(S1) == IF event.source.type = "user" /\ event.replyToken # <<>>
                   THEN Commit(Reply(S1, d, i, "image"))
                   ELSE Commit(Continue(S1, d, i))
     IN \/ Go(Note(St, d, i, "pushOk", "saved", ADMIN_USER_ID))
        \/ /\ faults > 0
           /\ Go(Note(Fault(St), d, i, "pushFail", "saved", ADMIN_USER_ID))

\* client.pushMessage(ADMIN_USER_ID, ...) of a saved image settles.
PushSettle(d) ==
  /\ h[d].pc = "push"
  /\ LET i == h[d].i
         event == Event(St, d, i)
     IN \/ LET S1 == Note(St, d, i, "pushOk", "saved", ADMIN_USER_ID)
           IN IF event.source.type = "user" /\ event.replyToken # <<>>
              THEN Commit(Reply(S1, d, i, "image"))
              ELSE Commit(Continue(S1, d, i))
        \/ /\ faults > 0
           /\ Commit(Catch(Note(Fault(St), d, i, "pushFail", "saved", ADMIN_USER_ID),
                           d, i, "push"))

\* client.replyMessage settles (follow, text and image branches).
ReplySettle(d) ==
  /\ h[d].pc = "reply"
  /\ LET i == h[d].i
         token == Event(St, d, i).replyToken
     IN \/ Commit(Continue(Note(St, d, i, "replyOk", "", token), d, i))
        \/ /\ faults > 0
           /\ Commit(Catch(Note(Fault(St), d, i, "replyFail", "", token), d, i, "reply"))

\* (mutant) a rejection of the push of the catch block ends the handler
ErrPushSettleRaises(d) ==
  /\ h[d].pc = "errpush"
  /\ LET i == h[d].i
     IN \/ Commit(AfterCatch(Note(St, d, i, "pushOk", "error", ADMIN_USER_ID), d, i))
        \/ /\ faults > 0
           /\ Commit(Goto(Note(Fault(St), d, i, "pushFail", "error", ADMIN_USER_ID),
                           d, "done"))

\* The push of the catch block settles; a rejection is swallowed.
ErrPushSettle(d) ==
  /\ h[d].pc = "errpush"
  /\ LET i == h[d].i
     IN \/ Commit(AfterCatch(Note(St, d, i, "pushOk", "error", ADMIN_USER_ID), d, i))
        \/ /\ faults > 0
           /\ Commit(AfterCatch(Note(Fault(St), d, i, "pushFail", "error", ADMIN_USER_ID),
                                d, i))

\* The setTimeout of rememberMessageId fires: seenMessageIds.delete(id).
TimerFire ==
  \E t \in timers :
    /\ t.due <= now
    /\ seenMessageIds' = seenMessageIds \ {t.id}
    /\ timers' = timers \ {t}
    /\ UNCHANGED <<now, ticks, nameCache, dirs, files, faults, h, log, call>>

\* Time passes: ten minutes, or twenty-four hours.
TickSteps == {DEDUP_TTL_MS, CACHE_TTL_MS}

Tick ==
  /\ ticks < MaxTicks
  /\ \E step \in TickSteps : now' = now + step
  /\ ticks' = ticks + 1
  /\ UNCHANGED <<nameCache, seenMessageIds, timers, dirs, files, faults, h, log, call>>

Settle ==
  \/ \E d \in Deliveries : LookupSettle(d)
  \/ \E d \in Deliveries : EnsureDir(d)
  \/ \E d \in Deliveries : FetchSettle(d)
  \/ \E d \in Deliveries : CopySettle(d)
  \/ \E d \in Deliveries : PushSettle(d)
  \/ \E d \in Deliveries : ReplySettle(d)
  \/ \E d \in Deliveries : ErrPushSettle(d)

\* One delivery of any batch of events.
Next ==
  \/ Webhook
  \/ WebhookRefused
  \/ Settle

Spec == Init /\ [][Next]_vars

\* One delivery of any batch, where every call that is in flight eventually
\* completes or fails.
SpecLive == Init /\ [][Next]_vars /\ WF_vars(Settle)

\* Several deliveries of image events, handled concurrently, while time
\* passes. A handler that resumes from `await getSourceFolder(event)` is a
\* microtask: it runs before any timer, any callback of a call and any new
\* delivery. A timer that is due runs before any other callback.
Resuming == \E d \in Deliveries : h[d].pc = "folder"

TimerDue == \E t \in timers : t.due <= now

Busy == Resuming \/ TimerDue

NextImages ==
  \/ ~Resuming /\ TimerFire
  \/ \E d \in Deliveries : EnsureDir(d)
  \/ \E d \in Deliveries : ~Busy /\ WebhookImages(d)
  \/ \E d \in Deliveries : ~Busy /\ LookupSettle(d)
  \/ \E d \in Deliveries : ~Busy /\ FetchSettle(d)
  \/ \E d \in Deliveries : ~Busy /\ CopySettle(d)
  \/ \E d \in Deliveries : ~Busy /\ PushSettle(d)
  \/ \E d \in Deliveries : ~Busy /\ ReplySettle(d)
  \/ \E d \in Deliveries : ~Busy /\ ErrPushSettle(d)
  \/ ~Busy /\ Tick

SpecImages == InitImages /\ [][NextImages]_vars

\* Deliveries of images of one group, handled concurrently while time passes
\* (no private chat among them, so no reply is ever in flight): one image, or
\* that image followed by a second one, or a third image alone.
M3 == <<"9">>

GroupImage(m) == Ev("message", "image", m, GroupSrc(G1), Tok)

LookupBatches == {<<GroupImage(M1)>>, <<GroupImage(M1), GroupImage(M2)>>, <<GroupImage(M3)>>}

WebhookLookups(d) == Deliver(d, LookupBatches)

\* Time passes between two bursts of deliveries: twenty-four hours.
TickDay ==
  /\ ticks < MaxTicks
  /\ \A d \in Deliveries : h[d].pc \in {"idle", "done"}
  /\ now' = now + CACHE_TTL_MS
  /\ ticks' = ticks + 1
  /\ UNCHANGED <<nameCache, seenMessageIds, timers, dirs, files, faults, h, log, call>>

NextLookups ==
  \/ ~Resuming /\ TimerFire
  \/ \E d \in Deliveries : EnsureDir(d)
  \/ \E d \in Deliveries : ~Busy /\ WebhookLookups(d)
  \/ \E d \in Deliveries : ~Busy /\ LookupSettle(d)
  \/ \E d \in Deliveries : ~Busy /\ FetchSettle(d)
  \/ \E d \in Deliveries : ~Busy /\ CopySettle(d)
  \/ \E d \in Deliveries : ~Busy /\ PushSettle(d)
  \/ \E d \in Deliveries : ~Busy /\ ErrPushSettle(d)
  \/ ~Busy /\ TickDay

SpecLookups == InitImages /\ [][NextLookups]_vars

\* ------------------------------------------------------------- part_002, first script
\* The variant of src/unnamed/part_002 (lines 1 to 210): it answers every
\* follow, join, text and image event, resolves room names too, has no dedup
\* set, and its catch block only logs.
Str_roomKey == <<"r", "o", "o", "m", ":">>
Str_UnknownRoom == <<"U", "n", "k", "n", "o", "w", "n", "R", "o", "o", "m">>

\* The events of a delivery to this variant; a group or room event may come
\* without the userId of its sender.
EventsPart002 ==
       {Ev("follow", "", <<>>, UserSrc, Tok), Ev("join", "", <<>>, GroupSrc(G1), Tok),
        Ev("join", "", <<>>, RoomSrc, Tok)}
  \cup {Ev("message", "text", M1, s, Tok) : s \in {UserSrc, GroupSrc(G1)}}
  \cup {Ev("message", "image", M1, s, tok) :
          s \in {UserSrc, GroupSrc(G1), Src("group", <<>>, G1, <<>>), RoomSrc,
                 Src("room", <<>>, R1, <<>>)},
          tok \in {Tok}}
  \cup {Ev("message", "image", M2, Src("group", <<>>, G1, <<>>), <<>>),
        Ev("message", "sticker", M2, GroupSrc(G1), Tok)}

BatchesPart002 == UNION {[1..n -> EventsPart002] : n \in 0..MaxBatch}

RECURSIVE LoopPart002(_, _, _)

\* `continue`, or the end of the try block
ContinuePart002(S, d, i) == LoopPart002(Note(S, d, i, "end", "", <<>>), d, i + 1)

\* catch (err): console.error twice, nothing else; on to the next event
CatchPart002(S, d, i, why) == LoopPart002(Note(S, d, i, "caught", why, <<>>), d, i + 1)

\* await client.replyMessage(event.replyToken, ...) of a join, follow or text event
ReplyPart002(S, d, i, k) ==
  Goto(Note(S, d, i, "reply", k, Event(S, d, i).replyToken), d, "p2_reply")

\* the key of the name cache for a group or room source
CacheKeyPart002(src) ==
  IF src.type = "group" THEN Str_groupKey \o src.groupId ELSE Str_roomKey \o src.roomId

\* getSourceFolder, once getGroupOrRoomName has returned name (<<>>: null or "")
ResolvedPart002(S, d, i, name) ==
  LET src == Event(S, d, i).source
      folder == IF src.type = "group" /\ src.groupId # <<>>
                THEN IF name # <<>>
                     THEN Str_group_ \o name \o <<"_">> \o SliceTail(src.groupId, 6)
                     ELSE Str_group_ \o src.groupId
                ELSE IF src.type = "room" /\ src.roomId # <<>>
                THEN IF name # <<>>
                     THEN Str_room_ \o name \o <<"_">> \o SliceTail(src.roomId, 6)
                     ELSE Str_room_ \o src.roomId
                ELSE Str_unknown
  IN Goto([Note(S, d, i, "folder", "", folder) EXCEPT !.h[d].folderName = folder],
          d, "p2_folder")

\* getSourceFolder(event) with getGroupOrRoomName(src), up to the first await
getSourceFolderPart002(S, d, i) ==
  LET src == Event(S, d, i).source
      key == CacheKeyPart002(src)
  IN IF src.type = "user"
     THEN Goto([Note(S, d, i, "folder", "", Str_private)
                  EXCEPT !.h[d].folderName = Str_private], d, "p2_folder")
     ELSE IF (src.type = "group" /\ src.groupId # <<>>) \/ (src.type = "room" /\ src.roomId # <<>>)
     THEN IF key \in DOMAIN S.nameCache /\ S.now - S.nameCache[key].ts < CACHE_TTL_MS
          THEN ResolvedPart002(NoteAt(S, d, i, "cacheHit", "", key), d, i, S.nameCache[key].name)
          ELSE Goto(NoteAt(S, d, i, "lookup", "", key), d, "p2_lookup")
     ELSE ResolvedPart002(S, d, i, <<>>)

\* the body of the loop for event i, up to its first await
BodyPart002(S, d, i) ==
  LET event == Event(S, d, i)
      In(k) == Note(S, d, i, "branch", k, <<>>)
  IN IF event.type = "join" \/ event.type = "follow"
     THEN ReplyPart002(In("welcome"), d, i, "welcome")
     ELSE IF event.type = "message" /\ event.message.type = "text"
     THEN ReplyPart002(In("text"), d, i, "text")
     ELSE IF event.type = "message" /\ event.message.type = "image"
     THEN getSourceFolderPart002(In("image"), d, i)
     ELSE ContinuePart002(S, d, i)

LoopPart002(S, d, i) ==
  IF i > Len(S.h[d].events)
  THEN Goto([S EXCEPT !.h[d].i = i], d, "done")
  ELSE BodyPart002([S EXCEPT !.h[d].i = i], d, i)

\* A delivery passes line.middleware: res.sendStatus(200), then the loop.
WebhookPart002 ==
  /\ h[1].pc = "idle"
  /\ \E events \in BatchesPart002 :
       Commit(LoopPart002(Ack([St EXCEPT !.h[1].events = events], 1), 1, 1))

\* The reply of a join, follow or text event settles.
ReplySettlePart002(d) ==
  /\ h[d].pc = "p2_reply"
  /\ LET i == h[d].i
         token == Event(St, d, i).replyToken
     IN \/ Commit(ContinuePart002(Note(St, d, i, "replyOk", "", token), d, i))
        \/ /\ faults > 0
           /\ Commit(CatchPart002(Note(Fault(St), d, i, "replyFail", "", token), d, i, "reply"))

\* getGroupSummary or getRoomSummary settles: the name is sanitized and stored,
\* or the rejection leaves getSourceFolder and reaches the catch of the loop.
LookupSettlePart002(d) ==
  /\ h[d].pc = "p2_lookup"
  /\ LET i == h[d].i
         src == Event(St, d, i).source
         key == CacheKeyPart002(src)
         unknown == IF src.type = "group" THEN Str_UnknownGroup ELSE Str_UnknownRoom
     IN \/ \E summaryName \in GroupNames :
             LET name == sanitizeFolderName(IF summaryName # <<>> THEN summaryName ELSE unknown)
                 S1 == Note(St, d, i, "lookupOk", "", summaryName)
                 S2 == [S1 EXCEPT !.nameCache = (key :> [name |-> name, ts |-> now]) @@ @]
             IN Commit(ResolvedPart002(NoteAt(S2, d, i, "cacheSet", "", name), d, i, name))
        \/ /\ faults > 0
           /\ Commit(CatchPart002(Note(Fault(St), d, i, "lookupFail", "", key), d, i, "lookup"))

\* The handler resumes with folderName: the directory, the file name, and the
\* reply "received" when the event has a reply token, else the content fetch.
EnsureDirPart002(d) ==
  /\ h[d].pc = "p2_folder"
  /\ LET i == h[d].i
         event == Event(St, d, i)
         folder == h[d].folderName
         fileName == makeFileName(event.message.id, Str_jpg, now)
         Go(S) ==
           LET S1 == [Note(S, d, i, "dir", "", folder) EXCEPT !.h[d].fileName = fileName]
           IN IF event.replyToken # <<>>
              THEN Goto(Note(S1, d, i, "reply", "image", event.replyToken), d, "p2_imgreply")
              ELSE Goto(Note(S1, d, i, "fetch", "", event.message.id), d, "p2_fetch")
     IN IF folder \in dirs
        THEN Commit(Go(St))
        ELSE \/ Commit(Go([St EXCEPT !.dirs = @ \cup {folder}]))
             \/ /\ faults > 0
                /\ Commit(CatchPart002(Fault(St), d, i, "mkdir"))

\* The reply of an image event settles; then client.getMessageContent.
ImageReplySettlePart002(d) ==
  /\ h[d].pc = "p2_imgreply"
  /\ LET i == h[d].i
         event == Event(St, d, i)
     IN \/ Commit(Goto(Note(Note(St, d, i, "replyOk", "", event.replyToken),
                            d, i, "fetch", "", event.message.id), d, "p2_fetch"))
        \/ /\ faults > 0
           /\ Commit(CatchPart002(Note(Fault(St), d, i, "replyFail", "", event.replyToken),
                                  d, i, "reply"))

\* client.getMessageContent settles; saveStreamToFile opens the file.
FetchSettlePart002(d) ==
  /\ h[d].pc = "p2_fetch"
  /\ LET i == h[d].i
         path == FilePath(St, d)
         opens == IF path \in DOMAIN files THEN files[path].opens ELSE 0
     IN \/ Commit(Goto(Note([St EXCEPT !.files =
                               (path :> [state |-> "partial", opens |-> opens + 1]) @@ @,
                                      !.h[d].opened = TRUE],
                            d, i, "open", "ok", h[d].fileName), d, "p2_copy"))
        \/ /\ faults > 0
           /\ Commit(CatchPart002(Note(Fault(St), d, i, "fetchFail", "",
                                       Event(St, d, i).message.id), d, i, "fetch"))

\* saveStreamToFile settles; then the push "saved" to the user id of the
\* source, or else to its group id, or else to its room id.
CopySettlePart002(d) ==
  /\ h[d].pc = "p2_copy"
  /\ LET i == h[d].i
         src == Event(St, d, i).source
         path == FilePath(St, d)
         to == IF src.userId # <<>> THEN src.userId
               ELSE IF src.groupId # <<>> THEN src.groupId ELSE src.roomId
         S1 == Note([St EXCEPT !.files[path].state = "complete"], d, i, "written", "",
                    h[d].fileName)
     IN \/ IF to # <<>>
           THEN Commit(Goto(Note(S1, d, i, "push", "saved", to), d, "p2_push"))
           ELSE Commit(ContinuePart002(S1, d, i))
        \/ /\ faults > 0
           /\ \E k \in {"stream", "write"} :
                Commit(CatchPart002(Note(Fault(St), d, i, "copyFail", k, h[d].fileName),
                                    d, i, k))

\* The push "saved" settles.
PushSettlePart002(d) ==
  /\ h[d].pc = "p2_push"
  /\ LET i == h[d].i
         to == log[d][Len(log[d])].x
     IN \/ Commit(ContinuePart002(Note(St, d, i, "pushOk", "saved", to), d, i))
        \/ /\ faults > 0
           /\ Commit(CatchPart002(Note(Fault(St), d, i, "pushFail", "saved", to), d, i, "push"))

NextPart002 ==
  \/ WebhookPart002
  \/ \E d \in Deliveries : ReplySettlePart002(d)
  \/ \E d \in Deliveries : LookupSettlePart002(d)
  \/ \E d \in Deliveries : EnsureDirPart002(d)
  \/ \E d \in Deliveries : ImageReplySettlePart002(d)
  \/ \E d \in Deliveries : FetchSettlePart002(d)
  \/ \E d \in Deliveries : CopySettlePart002(d)
  \/ \E d \in Deliveries : PushSettlePart002(d)

SpecPart002 == Init /\ [][NextPart002]_vars

\* ------------------------------------------------------------- part_000
\* The variant of src/unnamed/part_000: silent in groups and rooms, it answers
\* only private chats, resolves room names too, notifies no administrator,
\* has no dedup set, and its catch block only logs.
EventsPart000 ==
       {Ev("follow", "", <<>>, UserSrc, Tok), Ev("join", "", <<>>, GroupSrc(G1), Tok)}
  \cup {Ev("message", "text", M1, s, Tok) : s \in {UserSrc, GroupSrc(G1)}}
  \cup {Ev("message", "image", M1, s, Tok) :
          s \in {UserSrc, GroupSrc(G1), RoomSrc, Src("group", U1, <<>>, <<>>)}}
  \cup {Ev("message", "image", M2, s, <<>>) : s \in {UserSrc, GroupSrc(G1)}}
  \cup {Ev("message", "sticker", M2, UserSrc, Tok)}

BatchesPart000 == UNION {[1..n -> EventsPart000] : n \in 0..MaxBatch}

\* isGroupOrRoom(event)
isGroupOrRoom(event) == event.source.type = "group" \/ event.source.type = "room"

\* isPrivateChat(event)
isPrivateChat(event) == event.source.type = "user"

RECURSIVE LoopPart000(_, _, _)

\* `continue`, or the end of the try block
ContinuePart000(S, d, i) == LoopPart000(Note(S, d, i, "end", "", <<>>), d, i + 1)

\* catch (err): console.error twice, nothing else; on to the next event
CatchPart000(S, d, i, why) == LoopPart000(Note(S, d, i, "caught", why, <<>>), d, i + 1)

\* await client.replyMessage(event.replyToken, ...) of a follow, join or text event
ReplyPart000(S, d, i, k) ==
  Goto(Note(S, d, i, "reply", k, Event(S, d, i).replyToken), d, "p0_reply")

\* the key of the name cache for a group or room source
CacheKeyPart000(src) ==
  IF src.type = "group" THEN Str_groupKey \o src.groupId ELSE Str_roomKey \o src.roomId

\* getSourceFolder, once getGroupOrRoomName has returned name (<<>>: null or "")
ResolvedPart000(S, d, i, name) ==
  LET src == Event(S, d, i).source
      folder == IF src.type = "group" /\ src.groupId # <<>>
                THEN IF name # <<>>
                     THEN Str_group_ \o name \o <<"_">> \o SliceTail(src.groupId, 6)
                     ELSE Str_group_ \o src.groupId
                ELSE IF src.type = "room" /\ src.roomId # <<>>
                THEN IF name # <<>>
                     THEN Str_room_ \o name \o <<"_">> \o SliceTail(src.roomId, 6)
                     ELSE Str_room_ \o src.roomId
                ELSE Str_unknown
  IN Goto([Note(S, d, i, "folder", "", folder) EXCEPT !.h[d].folderName = folder],
          d, "p0_folder")

\* getSourceFolder(event) with getGroupOrRoomName(src), up to the first await
getSourceFolderPart000(S, d, i) ==
  LET src == Event(S, d, i).source
      key == CacheKeyPart000(src)
  IN IF src.type = "user"
     THEN Goto([Note(S, d, i, "folder", "", Str_private)
                  EXCEPT !.h[d].folderName = Str_private], d, "p0_folder")
     ELSE IF (src.type = "group" /\ src.groupId # <<>>) \/ (src.type = "room" /\ src.roomId # <<>>)
     THEN IF key \in DOMAIN S.nameCache /\ S.now - S.nameCache[key].ts < CACHE_TTL_MS
          THEN ResolvedPart000(NoteAt(S, d, i, "cacheHit", "", key), d, i, S.nameCache[key].name)
          ELSE Goto(NoteAt(S, d, i, "lookup", "", key), d, "p0_lookup")
     ELSE ResolvedPart000(S, d, i, <<>>)

\* the body of the loop for event i, up to its first await
BodyPart000(S, d, i) ==
  LET event == Event(S, d, i)
      silent == isGroupOrRoom(event)
      In(k) == Note(S, d, i, "branch", k, <<>>)
  IN IF ~silent /\ (event.type = "follow" \/ event.type = "join")
     THEN ReplyPart000(In("welcome"), d, i, "welcome")
     ELSE IF ~silent /\ event.type = "message" /\ event.message.type = "text"
     THEN ReplyPart000(In("text"), d, i, "text")
     ELSE IF event.type = "message" /\ event.message.type = "image"
     THEN getSourceFolderPart000(In("image"), d, i)
     ELSE ContinuePart000(S, d, i)

LoopPart000(S, d, i) ==
  IF i > Len(S.h[d].events)
  THEN Goto([S EXCEPT !.h[d].i = i], d, "done")
  ELSE BodyPart000([S EXCEPT !.h[d].i = i], d, i)

\* A delivery passes line.middleware: res.sendStatus(200), then the loop.
WebhookPart000 ==
  /\ h[1].pc = "idle"
  /\ \E events \in BatchesPart000 :
       Commit(LoopPart000(Ack([St EXCEPT !.h[1].events = events], 1), 1, 1))

\* A reply settles (follow, join, text, or the reply after a saved image).
ReplySettlePart000(d) ==
  /\ h[d].pc = "p0_reply"
  /\ LET i == h[d].i
         token == Event(St, d, i).replyToken
     IN \/ Commit(ContinuePart000(Note(St, d, i, "replyOk", "", token), d, i))
        \/ /\ faults > 0
           /\ Commit(CatchPart000(Note(Fault(St), d, i, "replyFail", "", token), d, i, "reply"))

\* getGroupSummary or getRoomSummary settles: the name is sanitized and stored,
\* or the rejection leaves getGroupOrRoomName and getSourceFolder (neither
\* catches it) and reaches the catch of the loop.
LookupSettlePart000(d) ==
  /\ h[d].pc = "p0_lookup"
  /\ LET i == h[d].i
         src == Event(St, d, i).source
         key == CacheKeyPart000(src)
         unknown == IF src.type = "group" THEN Str_UnknownGroup ELSE Str_UnknownRoom
     IN \/ \E summaryName \in GroupNames :
             LET name == sanitizeFolderName(IF summaryName # <<>> THEN summaryName ELSE unknown)
                 S1 == Note(St, d, i, "lookupOk", "", summaryName)
                 S2 == [S1 EXCEPT !.nameCache = (key :> [name |-> name, ts |-> now]) @@ @]
             IN Commit(ResolvedPart000(NoteAt(S2, d, i, "cacheSet", "", name), d, i, name))
        \/ /\ faults > 0
           /\ Commit(CatchPart000(Note(Fault(St), d, i, "lookupFail", "", key), d, i, "lookup"))

\* The handler resumes with folderName: the directory, the file name, then
\* client.getMessageContent.
EnsureDirPart000(d) ==
  /\ h[d].pc = "p0_folder"
  /\ LET i == h[d].i
         event == Event(St, d, i)
         folder == h[d].folderName
         fileName == makeFileName(event.message.id, Str_jpg, now)
         Go(S) ==
           Goto(Note([Note(S, d, i, "dir", "", folder) EXCEPT !.h[d].fileName = fileName],
                     d, i, "fetch", "", event.message.id), d, "p0_fetch")
     IN IF folder \in dirs
        THEN Commit(Go(St))
        ELSE \/ Commit(Go([St EXCEPT !.dirs = @ \cup {folder}]))
             \/ /\ faults > 0
                /\ Commit(CatchPart000(Fault(St), d, i, "mkdir"))

\* client.getMessageContent settles; saveStreamToFile opens the file.
FetchSettlePart000(d) ==
  /\ h[d].pc = "p0_fetch"
  /\ LET i == h[d].i
         path == FilePath(St, d)
         opens == IF path \in DOMAIN files THEN files[path].opens ELSE 0
     IN \/ Commit(Goto(Note([St EXCEPT !.files =
                               (path :> [state |-> "partial", opens |-> opens + 1]) @@ @,
                                      !.h[d].opened = TRUE],
                            d, i, "open", "ok", h[d].fileName), d, "p0_copy"))
        \/ /\ faults > 0
           /\ Commit(CatchPart000(Note(Fault(St), d, i, "fetchFail", "",
                                       Event(St, d, i).message.id), d, i, "fetch"))

\* saveStreamToFile settles; a private chat with a reply token is answered.
CopySettlePart000(d) ==
  /\ h[d].pc = "p0_copy"
  /\ LET i == h[d].i
         event == Event(St, d, i)
         path == FilePath(St, d)
         S1 == Note([St EXCEPT !.files[path].state = "complete"], d, i, "written", "",
                    h[d].fileName)
     IN \/ IF isPrivateChat(event) /\ event.replyToken # <<>>
           THEN Commit(ReplyPart000(S1, d, i, "image"))
           ELSE Commit(ContinuePart000(S1, d, i))
        \/ /\ faults > 0
           /\ \E k \in {"stream", "write"} :
                Commit(CatchPart000(Note(Fault(St), d, i, "copyFail", k, h[d].fileName),
                                    d, i, k))

NextPart000 ==
  \/ WebhookPart000
  \/ \E d \in Deliveries : ReplySettlePart000(d)
  \/ \E d \in Deliveries : LookupSettlePart000(d)
  \/ \E d \in Deliveries : EnsureDirPart000(d)
  \/ \E d \in Deliveries : FetchSettlePart000(d)
  \/ \E d \in Deliveries : CopySettlePart000(d)

SpecPart000 == Init /\ [][NextPart000]_vars

\* ------------------------------------------------------------- part_002, second script
\* The variant of src/unnamed/part_002 from line 212 on: it handles image
\* events only, names a file after the date and the message id, keeps the
\* 10-minute dedup set, notifies the administrator of an image of a group or
\* room and answers a private chat.
EventsPart002B ==
  ImageEvents \cup {Ev("message", "image", M1, RoomSrc, Tok), Ev("message", "text", M1, UserSrc, Tok)}

BatchesPart002B == UNION {[1..n -> EventsPart002B] : n \in 1..MaxImages}

\* makeFileName(messageId, ext): YYYY-MM-DD_messageId.ext
makeFileNamePart002B(messageId, ext, t) ==
  LET d == DateParts(t)
  IN Digits(d.year) \o <<"-">> \o pad(d.month) \o <<"-">> \o pad(d.date)
     \o <<"_">> \o messageId \o <<".">> \o ext

RECURSIVE LoopPart002B(_, _, _)

\* `continue`, or the end of the try block
ContinuePart002B(S, d, i) == LoopPart002B(Note(S, d, i, "end", "", <<>>), d, i + 1)

\* catch (err): console.error, then await notifyAdmin(error text)
CatchPart002B(S, d, i, why) ==
  Goto(Note(Note(S, d, i, "caught", why, <<>>), d, i, "push", "error", ADMIN_USER_ID),
       d, "pb_errpush")

\* getSourceFolder has returned folder
ResolvedPart002B(S, d, i, folder) ==
  Goto([Note(S, d, i, "folder", "", folder) EXCEPT !.h[d].folderName = folder], d, "pb_folder")

\* getSourceFolder(event) with getGroupName(groupId), up to the first await;
\* the key of the name cache is the group id
getSourceFolderPart002B(S, d, i) ==
  LET src == Event(S, d, i).source
      key == src.groupId
  IN IF src.type = "user" THEN ResolvedPart002B(S, d, i, Str_private)
     ELSE IF src.type = "group" /\ src.groupId # <<>>
     THEN IF key \in DOMAIN S.nameCache /\ S.now - S.nameCache[key].ts < CACHE_TTL_MS
          THEN ResolvedPart002B(NoteAt(S, d, i, "cacheHit", "", key), d, i,
                                GroupFolder(S.nameCache[key].name, src.groupId))
          ELSE Goto(NoteAt(S, d, i, "lookup", "", key), d, "pb_lookup")
     ELSE IF src.type = "room" /\ src.roomId # <<>>
     THEN ResolvedPart002B(S, d, i, Str_room_ \o SliceTail(src.roomId, 6))
     ELSE ResolvedPart002B(S, d, i, Str_unknown)

\* the body of the loop for event i, up to its first await
BodyPart002B(S, d, i) ==
  LET event == Event(S, d, i)
      messageId == event.message.id
  IN IF event.type # "message" \/ event.message.type # "image"
     THEN ContinuePart002B(S, d, i)
     ELSE IF messageId \in S.seen
     THEN ContinuePart002B(NoteAt(S, d, i, "dup", "", messageId), d, i)
     ELSE getSourceFolderPart002B(
            NoteAt(rememberMessageId(S, messageId), d, i, "remember", "", messageId), d, i)

LoopPart002B(S, d, i) ==
  IF i > Len(S.h[d].events)
  THEN Goto([S EXCEPT !.h[d].i = i], d, "done")
  ELSE BodyPart002B([S EXCEPT !.h[d].i = i], d, i)

\* A delivery passes line.middleware: res.sendStatus(200), then the loop.
WebhookPart002B(d) ==
  /\ h[d].pc = "idle"
  /\ IF d = 1 THEN TRUE ELSE h[d - 1].pc # "idle"
  /\ \E events \in BatchesPart002B :
       Commit(LoopPart002B(Ack([St EXCEPT !.h[d].events = events], d), d, 1))

\* client.getGroupSummary settles: getGroupName stores the sanitized name, or
\* the catch of getSourceFolder returns group_{tail}.
LookupSettlePart002B(d) ==
  /\ h[d].pc = "pb_lookup"
  /\ LET i == h[d].i
         groupId == Event(St, d, i).source.groupId
     IN \/ \E groupName \in GroupNames :
             LET name == sanitizeFolderName(IF groupName # <<>> THEN groupName
                                                                ELSE Str_UnknownGroup)
                 S1 == Note(St, d, i, "lookupOk", "", groupName)
                 S2 == [S1 EXCEPT !.nameCache = (groupId :> [name |-> name, ts |-> now]) @@ @]
             IN Commit(ResolvedPart002B(NoteAt(S2, d, i, "cacheSet", "", name), d, i,
                                        GroupFolder(name, groupId)))
        \/ /\ faults > 0
           /\ Commit(ResolvedPart002B(Note(Fault(St), d, i, "lookupFail", "", groupId), d, i,
                                      Str_group_ \o SliceTail(groupId, 6)))

\* The handler resumes with folderName: the directory, then getMessageContent.
EnsureDirPart002B(d) ==
  /\ h[d].pc = "pb_folder"
  /\ LET i == h[d].i
         folder == h[d].folderName
         Go(S) == Goto(Note(Note(S, d, i, "dir", "", folder), d, i, "fetch", "",
                            Event(S, d, i).message.id), d, "pb_fetch")
     IN IF folder \in dirs
        THEN Commit(Go(St))
        ELSE \/ Commit(Go([St EXCEPT !.dirs = @ \cup {folder}]))
             \/ /\ faults > 0
                /\ Commit(CatchPart002B(Fault(St), d, i, "mkdir"))

\* client.getMessageContent settles: on a stream, the extension and the file
\* name are computed and saveStreamToFile opens the file for writing.
FetchSettlePart002B(d) ==
  /\ h[d].pc = "pb_fetch"
  /\ LET i == h[d].i
         messageId == Event(St, d, i).message.id
     IN \/ \E contentType \in ContentTypes :
             LET fileName == makeFileNamePart002B(messageId, ExtOf(contentType), now)
                 path == <<h[d].folderName, fileName>>
                 opens == IF path \in DOMAIN files THEN files[path].opens ELSE 0
                 S1 == [St EXCEPT !.h[d].fileName = fileName, !.h[d].opened = TRUE,
                                  !.files = (path :> [state |-> "partial", opens |-> opens + 1]) @@ @]
             IN Commit(Goto(Note(S1, d, i, "open", "ok", fileName), d, "pb_copy"))
        \/ /\ faults > 0
           /\ Commit(CatchPart002B(Note(Fault(St), d, i, "fetchFail", "", messageId),
                                   d, i, "fetch"))

\* saveStreamToFile settles: an image of a group or room is reported to the
\* administrator, an image of a private chat is answered.
CopySettlePart002B(d) ==
  /\ h[d].pc = "pb_copy"
  /\ LET i == h[d].i
         event == Event(St, d, i)
         srcType == event.source.type
         path == FilePath(St, d)
         S1 == Note([St EXCEPT !.files[path].state = "complete"], d, i, "written", "",
                    h[d].fileName)
     IN \/ IF srcType = "group" \/ srcType = "room"
           THEN Commit(Goto(Note(S1, d, i, "push", "saved", ADMIN_USER_ID), d, "pb_push"))
           ELSE IF srcType = "user" /\ event.replyToken # <<>>
           THEN Commit(Goto(Note(S1, d, i, "reply", "image", event.replyToken), d, "pb_reply"))
           ELSE Commit(ContinuePart002B(S1, d, i))
        \/ /\ faults > 0
           /\ \E k \in {"stream", "write"} :
                Commit(CatchPart002B(Note(Fault(St), d, i, "copyFail", k, h[d].fileName),
                                     d, i, k))

\* notifyAdmin of a saved image settles.
PushSettlePart002B(d) ==
  /\ h[d].pc = "pb_push"
  /\ LET i == h[d].i
     IN \/ Commit(ContinuePart002B(Note(St, d, i, "pushOk", "saved", ADMIN_USER_ID), d, i))
        \/ /\ faults > 0
           /\ Commit(CatchPart002B(Note(Fault(St), d, i, "pushFail", "saved", ADMIN_USER_ID),
                                   d, i, "push"))

\* The reply to a private chat settles.
ReplySettlePart002B(d) ==
  /\ h[d].pc = "pb_reply"
  /\ LET i == h[d].i
         token == Event(St, d, i).replyToken
     IN \/ Commit(ContinuePart002B(Note(St, d, i, "replyOk", "", token), d, i))
        \/ /\ faults > 0
           /\ Commit(CatchPart002B(Note(Fault(St), d, i, "replyFail", "", token), d, i, "reply"))

\* notifyAdmin of the catch block settles; a rejection is swallowed.
ErrPushSettlePart002B(d) ==
  /\ h[d].pc = "pb_errpush"
  /\ LET i == h[d].i
     IN \/ Commit(LoopPart002B(Note(St, d, i, "pushOk", "error", ADMIN_USER_ID), d, i + 1))
        \/ /\ faults > 0
           /\ Commit(LoopPart002B(Note(Fault(St), d, i, "pushFail", "error", ADMIN_USER_ID),
                                  d, i + 1))

\* a handler that resumes from `await getSourceFolder(event)`, or a timer that
\* is due, runs before anything else
BusyPart002B == (\E d \in Deliveries : h[d].pc = "pb_folder") \/ TimerDue

NextPart002B ==
  \/ (\A d \in Deliveries : h[d].pc # "pb_folder") /\ TimerFire
  \/ \E d \in Deliveries : EnsureDirPart002B(d)
  \/ \E d \in Deliveries : ~BusyPart002B /\ WebhookPart002B(d)
  \/ \E d \in Deliveries : ~BusyPart002B /\ LookupSettlePart002B(d)
  \/ \E d \in Deliveries : ~BusyPart002B /\ FetchSettlePart002B(d)
  \/ \E d \in Deliveries : ~BusyPart002B /\ CopySettlePart002B(d)
  \/ \E d \in Deliveries : ~BusyPart002B /\ PushSettlePart002B(d)
  \/ \E d \in Deliveries : ~BusyPart002B /\ ReplySettlePart002B(d)
  \/ \E d \in Deliveries : ~BusyPart002B /\ ErrPushSettlePart002B(d)
  \/ ~BusyPart002B /\ Tick

SpecPart002B == InitImages /\ [][NextPart002B]_vars

\* ------------------------------------------------------------- the helpers on their own
RECURSIVE Repeat(_, _)
Repeat(c, n) == IF n = 0 THEN <<>> ELSE <<c>> \o Repeat(c, n - 1)

\* The display names: a run of one character, of a length around the cap of
\* sanitizeFolderName, between two short affixes of letters, illegal
\* characters and whitespace.
Affixes == UNION {[1..n -> {"a", "/", " ", "\t"}] : n \in 0..MaxAffix}
RunLengths == {0, MaxFolderLen - 2, MaxFolderLen - 1, MaxFolderLen, MaxFolderLen + 1}
DisplayNames ==
  {pre \o Repeat(c, n) \o post :
     pre \in Affixes, post \in Affixes, c \in {"a", " "}, n \in RunLengths}

\* The content-type headers, and the readings of the clock (ms after Epoch).
AllContentTypes ==
  ContentTypes \cup {<<"i", "m", "a", "g", "e", "/", "j", "p", "e", "g">>,
                     <<"I", "M", "A", "G", "E", "/", "J", "P", "G">>,
                     <<"i", "m", "a", "g", "e", "/", "w", "e", "b", "p">>,
                     <<"t", "e", "x", "t", "/", "h", "t", "m", "l">>}
ClockReadings ==
  {1000 * ((3600 * hh) + (60 * mm) + ss) : hh \in {0, 9, 13, 14}, mm \in {0, 5, 29, 30}, ss \in {0, 7, 59}}

\* sanitizeFolderName(name) is called on a display name.
CallSanitize ==
  /\ call.fn = "none"
  /\ \E name \in DisplayNames :
       call' = [fn |-> "sanitizeFolderName", arg |-> name, ext |-> <<>>, t |-> 0,
                out |-> sanitizeFolderName(name)]
  /\ UNCHANGED <<now, ticks, nameCache, seenMessageIds, timers, dirs, files, faults, h, log>>

\* makeFileName(messageId, ext) is called with the extension of a content type
\* when the clock reads t.
CallMakeFileName ==
  /\ call.fn = "none"
  /\ \E messageId \in {M1, M2}, contentType \in AllContentTypes, t \in ClockReadings :
       call' = [fn |-> "makeFileName", arg |-> messageId, ext |-> ExtOf(contentType),
                t |-> t, out |-> makeFileName(messageId, ExtOf(contentType), t)]
  /\ UNCHANGED <<now, ticks, nameCache, seenMessageIds, timers, dirs, files, faults, h, log>>

NextHelpers ==
  \/ CallSanitize
  \/ CallMakeFileName

SpecHelpers == Init /\ [][NextHelpers]_vars

\* ------------------------------------------------------------- reading the log
Ns(d) == 1..Len(log[d])
Idx(d) == 1..Len(h[d].events)

Has(d, i, op) == \E n \in Ns(d) : log[d][n].i = i /\ log[d][n].op = op
HasK(d, i, op, k) ==
  \E n \in Ns(d) : log[d][n].i = i /\ log[d][n].op = op /\ log[d][n].k = k
Count(d, i, op) == Cardinality({n \in Ns(d) : log[d][n].i = i /\ log[d][n].op = op})
CountK(d, i, op, k) ==
  Cardinality({n \in Ns(d) : log[d][n].i = i /\ log[d][n].op = op /\ log[d][n].k = k})

\* the handler has entered the body of the loop for event i
Started(d, i) == \E n \in Ns(d) : log[d][n].i = i

\* event i has failed: the catch block has run for it
Failed(d, i) == Has(d, i, "caught")

\* event i is over: it reached `continue` or the end of the try block, or its
\* catch block has finished
Over(d, i) ==
  \/ Has(d, i, "end")
  \/ Failed(d, i) /\ (HasK(d, i, "pushOk", "error") \/ HasK(d, i, "pushFail", "error"))

IsImage(e) == e.type = "message" /\ e.message.type = "image"

\* the group and room identifiers of the events
ConversationIds ==
  ({e.source.groupId : e \in Events} \cup {e.source.roomId : e \in Events}) \ {<<>>}

\* ------------------------------------------------------------- C1
\* C1: the handler of a delivery that passed the middleware has answered 200,
\* and the answer is the first thing it did: nothing of any event (lookup,
\* directory, fetch, write, reply, push) comes before it, whatever happens later.
C1_AckBeforeHandling ==
  \A d \in Deliveries :
    /\ h[d].pc \notin {"idle", "refused"} =>
         /\ h[d].res = 200
         /\ log[d] # <<>>
         /\ log[d][1].op = "ack"
    /\ \A n \in Ns(d) : log[d][n].op = "ack" => n = 1

\* acknowledged while the file of an image is still being written
C1_Witness ==
  \E d \in Deliveries : h[d].pc = "copy" /\ h[d].res = 200 /\ log[d][1].op = "ack"

\* ------------------------------------------------------------- C2
\* C2: a failed event never aborts the loop: once its catch block has finished
\* the next event of the batch has been entered, and when the handler returns
\* every event of the batch is over.
C2_FailureDoesNotAbort ==
  \A d \in Deliveries :
    /\ \A i \in Idx(d) :
         (Failed(d, i) /\ Over(d, i) /\ i < Len(h[d].events)) => Started(d, i + 1)
    /\ h[d].pc = "done" =>
         /\ h[d].i = Len(h[d].events) + 1
         /\ \A j \in Idx(d) : Over(d, j)

\* the first event failed and the image of the second one was written
C2_Witness ==
  \E d \in Deliveries :
    h[d].pc = "done" /\ Len(h[d].events) = 2 /\ Failed(d, 1) /\ Has(d, 2, "written")

\* ------------------------------------------------------------- C3
\* C3: every outbound message is a push to ADMIN_USER_ID or a reply with the
\* token of an event whose source is a user; none goes to a group or a room.
C3_OnlyAdminPushOrUserReply ==
  \A d \in Deliveries : \A n \in Ns(d) :
    LET e == log[d][n]
    IN /\ e.op = "push" => e.x = ADMIN_USER_ID
       /\ e.op = "reply" =>
            /\ h[d].events[e.i].source.type = "user"
            /\ e.x = h[d].events[e.i].replyToken
            /\ e.x # <<>>
       /\ e.op \in {"push", "reply"} => e.x \notin ConversationIds

\* a group or room event failed and its error was pushed, and a user was replied to
C3_Witness ==
  \E d \in Deliveries : \E i, j \in Idx(d) :
    /\ h[d].events[i].source.type \in {"group", "room"}
    /\ HasK(d, i, "push", "error")
    /\ Has(d, j, "reply")

\* ------------------------------------------------------------- C4
\* C4 (as claimed): for an image of a group or room whose file was written,
\* exactly one push to ADMIN_USER_ID is attempted while the event is handled,
\* whatever the outcome of that push.
C4_ExactlyOneAdminPush ==
  \A d \in Deliveries : \A i \in Idx(d) :
    ( /\ IsImage(h[d].events[i])
      /\ h[d].events[i].source.type \in {"group", "room"}
      /\ Has(d, i, "written") )
    => Cardinality({n \in Ns(d) : /\ log[d][n].i = i
                                  /\ log[d][n].op = "push"
                                  /\ log[d][n].x = ADMIN_USER_ID}) = 1

\* ------------------------------------------------------------- C5
\* C5: a rejected getGroupSummary does not fail the event: getSourceFolder
\* returns group_{last 6 characters of the id}, the handler resumes with it and
\* goes on to the directory and the fetch; the catch block is not entered for it.
C5_LookupFailureDegrades ==
  \A d \in Deliveries : \A n \in Ns(d) :
    log[d][n].op = "lookupFail" =>
      LET i == log[d][n].i
          groupId == h[d].events[i].source.groupId
      IN /\ n < Len(log[d])
         /\ log[d][n + 1].i = i
         /\ log[d][n + 1].op = "folder"
         /\ log[d][n + 1].x = Str_group_ \o SliceTail(groupId, 6)
         /\ n + 1 = Len(log[d]) => h[d].pc = "folder" /\ h[d].folderName = log[d][n + 1].x
         /\ n + 1 < Len(log[d]) =>
              \/ log[d][n + 2].op = "dir" /\ Has(d, i, "fetch")
              \/ log[d][n + 2].op = "caught" /\ log[d][n + 2].k = "mkdir"
         /\ ~HasK(d, i, "caught", "lookup")

\* the lookup was rejected and the image was written all the same
C5_Witness ==
  \E d \in Deliveries : \E i \in Idx(d) :
    /\ Has(d, i, "lookupFail")
    /\ Has(d, i, "written")
    /\ <<Str_group_ \o SliceTail(h[d].events[i].source.groupId, 6), h[d].fileName>>
         \in DOMAIN files

\* ------------------------------------------------------------- C6
\* a resolution of a group's folder name: the entry getGroupName logged when it
\* served the cache or called getGroupSummary
IsResolution(e) == e.op \in {"cacheHit", "lookup"}

\* the folder name that the resolution of event i returned
FolderOf(d, i) ==
  LET n == CHOOSE m \in Ns(d) : log[d][m].i = i /\ log[d][m].op = "folder"
  IN log[d][n].x

\* C6 (as claimed): any two resolutions of the folder name of the same group
\* made less than 24 hours apart return the same folder name, and the later
\* one makes no getGroupSummary call.
C6_SameFolderWithinTTL ==
  \A d1, d2 \in Deliveries : \A n1 \in Ns(d1), n2 \in Ns(d2) :
    LET r1 == log[d1][n1]
        r2 == log[d2][n2]
    IN ( /\ IsResolution(r1) /\ IsResolution(r2)
         /\ r1.x = r2.x
         /\ \/ r1.t < r2.t
            \/ d1 = d2 /\ n1 < n2 /\ r1.t = r2.t
         /\ r2.t - r1.t < CACHE_TTL_MS
         /\ Has(d1, r1.i, "folder") /\ Has(d2, r2.i, "folder") )
       => /\ FolderOf(d1, r1.i) = FolderOf(d2, r2.i)
          /\ r2.op = "cacheHit"

\* ------------------------------------------------------------- C7
\* the entries that one step appends to the log of delivery d
NewNs(d) == (Len(log[d]) + 1)..Len(log'[d])

\* what getGroupName does in one step, read against the cache before the step
C7_Step ==
  /\ \A d \in Deliveries : \A n \in NewNs(d) :
       LET e == log'[d][n]
           groupId == h'[d].events[e.i].source.groupId
           key == CacheKey(groupId)
       IN /\ e.op = "cacheHit" =>
               /\ key \in DOMAIN nameCache
               /\ now - nameCache[key].ts < CACHE_TTL_MS
               /\ log'[d][n + 1].op = "folder"
               /\ log'[d][n + 1].x = GroupFolder(nameCache[key].name, groupId)
               /\ nameCache' = nameCache
          /\ e.op = "lookup" =>
               /\ key \notin DOMAIN nameCache \/ now - nameCache[key].ts >= CACHE_TTL_MS
               /\ nameCache' = nameCache
          /\ e.op = "lookupFail" => nameCache' = nameCache
          /\ e.op = "cacheSet" =>
               LET raw == log'[d][n - 1].x
                   name == sanitizeFolderName(IF raw # <<>> THEN raw ELSE Str_UnknownGroup)
               IN /\ log'[d][n - 1].op = "lookupOk"
                  /\ e.x = name
                  /\ key \in DOMAIN nameCache'
                  /\ nameCache'[key] = [name |-> name, ts |-> now]
                  /\ \A other \in DOMAIN nameCache' \ {key} :
                       other \in DOMAIN nameCache /\ nameCache'[other] = nameCache[other]
  /\ nameCache' # nameCache =>
       \E d \in Deliveries : \E n \in NewNs(d) : log'[d][n].op = "cacheSet"

\* one resolution serves the cache or makes one call, never both and never twice
C7_OneCall ==
  \A d \in Deliveries : \A i \in Idx(d) :
    /\ Count(d, i, "lookup") + Count(d, i, "cacheHit") <= 1
    /\ Count(d, i, "lookupOk") + Count(d, i, "lookupFail") <= Count(d, i, "lookup")
    /\ Count(d, i, "cacheSet") = Count(d, i, "lookupOk")
    /\ ( /\ Has(d, i, "folder")
         /\ h[d].events[i].source.type = "group"
         /\ h[d].events[i].source.groupId # <<>> )
       => /\ Count(d, i, "lookup") + Count(d, i, "cacheHit") = 1
          /\ Count(d, i, "lookupOk") + Count(d, i, "lookupFail") = Count(d, i, "lookup")

\* C7: getGroupName serves the cached name only while now - ts < CACHE_TTL_MS;
\* when the entry is absent or 24 hours old or older, the resolution makes
\* exactly one getGroupSummary call and, when the call succeeds, replaces the
\* entry by the newly sanitized name and the current time (and nothing else
\* changes the cache).
C7_CacheTTL == [](C7_OneCall) /\ [][C7_Step]_vars

\* an entry stored at time 0 was replaced, 24 hours later, after a fresh call
C7_Witness ==
  \E d1, d2 \in Deliveries : \E n1 \in Ns(d1), n2 \in Ns(d2) :
    /\ log[d1][n1].op = "cacheSet" /\ log[d1][n1].t = 0
    /\ log[d2][n2].op = "cacheSet" /\ log[d2][n2].t >= CACHE_TTL_MS
    /\ h[d1].events[log[d1][n1].i].source.groupId
         = h[d2].events[log[d2][n2].i].source.groupId
    /\ Count(d2, log[d2][n2].i, "lookup") = 1
    /\ nameCache[CacheKey(h[d2].events[log[d2][n2].i].source.groupId)].ts
         = log[d2][n2].t

\* ------------------------------------------------------------- C8
\* the path at which event i opened its file
PathOf(d, i) ==
  LET n == CHOOSE m \in Ns(d) : log[d][m].i = i /\ log[d][m].op = "open"
  IN <<FolderOf(d, i), log[d][n].x>>

\* C8 (as claimed): when the content fetch of an image event failed
\* (getMessageContent rejected, or the fetched stream emitted an error during
\* the copy) and the event is marked failed, there is no file at the
\* destination path, or the file is not a partial one passing for valid (the
\* program keeps no flag for incomplete files).
C8_NoPartialFileAfterFailedFetch ==
  \A d \in Deliveries : \A i \in Idx(d) :
    ( /\ IsImage(h[d].events[i])
      /\ Has(d, i, "fetchFail") \/ HasK(d, i, "copyFail", "stream")
      /\ Failed(d, i)
      /\ HasK(d, i, "open", "ok") )
    => \/ PathOf(d, i) \notin DOMAIN files
       \/ files[PathOf(d, i)].state # "partial"

\* ------------------------------------------------------------- C9
\* the handler is suspended inside event i
InFlight(d, i) == Started(d, i) /\ ~Over(d, i)

\* every call that event i made has settled
Settled(d, i) ==
  /\ Count(d, i, "lookup") = Count(d, i, "lookupOk") + Count(d, i, "lookupFail")
  /\ Count(d, i, "push") = Count(d, i, "pushOk") + Count(d, i, "pushFail")
  /\ Count(d, i, "reply") = Count(d, i, "replyOk") + Count(d, i, "replyFail")
  /\ Count(d, i, "fetch") = Count(d, i, "open") + Count(d, i, "fetchFail")
  /\ Count(d, i, "open") = Count(d, i, "written") + Count(d, i, "copyFail")

Rank(e) ==
  IF e.op = "folder" THEN 1
  ELSE IF e.op = "dir" THEN 2
  ELSE IF e.op = "fetch" THEN 3
  ELSE IF e.op = "open" THEN 4
  ELSE IF e.op = "written" THEN 5
  ELSE IF e.op = "push" /\ e.k = "saved" THEN 6
  ELSE IF e.op = "pushOk" /\ e.k = "saved" THEN 7
  ELSE IF e.op = "reply" THEN 8
  ELSE IF e.op = "replyOk" THEN 9
  ELSE 0

IsFailure(e) ==
  \/ e.op \in {"fetchFail", "copyFail", "replyFail", "caught"}
  \/ e.op = "pushFail" /\ e.k = "saved"
  \/ e.op = "open" /\ e.k = "failed"

\* C10: the steps of one image event come in the order folder resolved,
\* directory ensured, content fetched, file written, administrator notified,
\* sender acknowledged; each step happens at most once and only after the step
\* before it has completed; the success push comes after the file is
\* completely written; once a step has failed no later step is executed.
C10_StepsInOrder ==
  \A d \in Deliveries : \A i \in Idx(d) :
    IsImage(h[d].events[i]) =>
      \A n \in Ns(d) :
        LET e == log[d][n]
        IN (e.i = i /\ Rank(e) > 0) =>
             /\ \A m \in Ns(d) :
                  (log[d][m].i = i /\ Rank(log[d][m]) = Rank(e)) => m = n
             /\ Rank(e) > 1 =>
                  \E m \in 1..(n - 1) : log[d][m].i = i /\ Rank(log[d][m]) = Rank(e) - 1
             /\ \A m \in 1..(n - 1) : log[d][m].i = i => ~IsFailure(log[d][m])
             /\ (e.op = "push" /\ e.k = "saved") =>
                  /\ PathOf(d, i) \in DOMAIN files
                  /\ files[PathOf(d, i)].state = "complete"

\* an image sent by a user went through every step, the reply included
C10_Witness ==
  \E d \in Deliveries : \E i \in Idx(d) :
    /\ IsImage(h[d].events[i])
    /\ Has(d, i, "replyOk")
    /\ HasK(d, i, "pushOk", "saved")
    /\ Has(d, i, "end")

\* ------------------------------------------------------------- C11
\* an outbound call of event i was rejected at position n of the log
IsSendFailure(e) == e.op \in {"pushFail", "replyFail"}

\* C11 (as claimed): a rejected pushMessage or replyMessage is only logged:
\* the event that made the call sends no further outbound message after the
\* rejection (no retry, no report to anyone).
C11_SendFailureOnlyLogged ==
  \A d \in Deliveries : \A n, m \in Ns(d) :
    ( /\ IsSendFailure(log[d][n])
      /\ n < m
      /\ log[d][m].i = log[d][n].i )
    => log[d][m].op \notin {"push", "reply"}

\* ------------------------------------------------------------- C12
\* C12: while an event is handled its reply token is passed to replyMessage at
\* most once, whatever the kind of the event and whatever the outcome of the
\* reply or of any other step.
C12_TokenUsedAtMostOnce ==
  \A d \in Deliveries : \A i \in Idx(d) :
    /\ Count(d, i, "reply") <= 1
    /\ Count(d, i, "replyOk") + Count(d, i, "replyFail") <= Count(d, i, "reply")
    /\ h[d].events[i].replyToken = <<>> => Count(d, i, "reply") = 0

\* the reply of an event was rejected, the event is over, and the token was used once
C12_Witness ==
  \E d \in Deliveries : \E i \in Idx(d) :
    /\ Has(d, i, "replyFail")
    /\ Over(d, i)
    /\ Count(d, i, "reply") = 1

\* ------------------------------------------------------------- C13
\* the branch that the kind of an event selects
BranchOf(e) ==
  IF e.type = "follow" THEN "follow"
  ELSE IF e.type = "join" THEN "join"
  ELSE IF e.type = "message" /\ e.message.type = "text" THEN "text"
  ELSE IF e.type = "message" /\ e.message.type = "image" THEN "image"
  ELSE "none"

\* every file, directory, cache entry and dedup entry was made by a logged
\* step of an image event
Accounted ==
  /\ \A path \in DOMAIN files :
       \E d \in Deliveries : \E i \in Idx(d) :
         /\ BranchOf(h[d].events[i]) = "image"
         /\ HasK(d, i, "open", "ok")
         /\ PathOf(d, i) = path
  /\ \A folder \in dirs :
       \E d \in Deliveries : \E n \in Ns(d) :
         /\ log[d][n].op = "dir" /\ log[d][n].x = folder
         /\ BranchOf(h[d].events[log[d][n].i]) = "image"
  /\ \A id \in seenMessageIds \cup {t.id : t \in timers} :
       \E d \in Deliveries : \E n \in Ns(d) :
         /\ log[d][n].op = "remember" /\ log[d][n].x = id
         /\ BranchOf(h[d].events[log[d][n].i]) = "image"
  /\ \A key \in DOMAIN nameCache :
       \E d \in Deliveries : \E n \in Ns(d) :
         /\ log[d][n].op = "cacheSet"
         /\ CacheKey(h[d].events[log[d][n].i].source.groupId) = key
         /\ BranchOf(h[d].events[log[d][n].i]) = "image"

\* C13: every event runs the one branch its kind selects, or none; an event
\* that matches no branch does nothing but pass: no file, no directory, no
\* cache entry, no dedup entry and no outbound message come from it.
C13_OneBranchOrNone ==
  /\ Accounted
  /\ \A d \in Deliveries : \A i \in Idx(d) :
       LET b == BranchOf(h[d].events[i])
       IN /\ Count(d, i, "branch") <= 1
          /\ \A n \in Ns(d) :
               (log[d][n].i = i /\ log[d][n].op = "branch") => log[d][n].k = b
          /\ (Started(d, i) /\ b # "none") => Count(d, i, "branch") = 1
          /\ b = "none" =>
               /\ \A n \in Ns(d) : log[d][n].i = i => log[d][n].op = "end"
               /\ Count(d, i, "end") <= 1
          /\ b \in {"follow", "join", "text"} =>
               \A n \in Ns(d) : log[d][n].i = i =>
                 log[d][n].op \in {"branch", "reply", "replyOk", "replyFail",
                                   "caught", "push", "pushOk", "pushFail", "end"}

\* a sticker message passed without a trace and the image after it was saved
C13_Witness ==
  \E d \in Deliveries :
    /\ Len(h[d].events) = 2
    /\ BranchOf(h[d].events[1]) = "none"
    /\ h[d].events[1].type = "message"
    /\ Has(d, 1, "end")
    /\ Has(d, 2, "written")
    /\ Cardinality(DOMAIN files) = 1

\* ------------------------------------------------------------- C14
\* a step leaves every file that was completely written as it is
FilesKept ==
  \A path \in DOMAIN files :
    files[path].state = "complete" =>
      /\ path \in DOMAIN files'
      /\ files'[path] = files[path]

\* C14 (as claimed): saved files are write-once: over any deliveries,
\* redeliveries of a message id and concurrent deliveries included, no path is
\* opened for writing by more than one pipeline (opening truncates), and a
\* file that was written is never truncated, overwritten or deleted.
C14_WriteOnce ==
  /\ [](\A path \in DOMAIN files : files[path].opens <= 1)
  /\ [][FilesKept]_vars

\* ------------------------------------------------------------- C15
\* the stores into the cache made for group g: delivery and position in its log
StoresOf(g) ==
  {dn \in UNION {{<<d, n>> : n \in Ns(d)} : d \in Deliveries} :
     /\ log[dn[1]][dn[2]].op = "cacheSet"
     /\ h[dn[1]].events[log[dn[1]][dn[2]].i].source.groupId = g}

\* C15: whatever deliveries resolve the same group concurrently, the entry
\* under group:{id} is always the sanitized name that a getGroupSummary call
\* for that same group returned, with the time at which it was stored (the
\* latest store); every key belongs to one group; racing resolutions only make
\* more calls, each returning the folder of the name its own call returned.
C15_CacheNeverCorrupted ==
  /\ \A key \in DOMAIN nameCache :
       \E g \in ConversationIds :
         /\ key = Str_groupKey \o g
         /\ \E dn \in StoresOf(g) :
              LET d == dn[1]
                  n == dn[2]
                  raw == log[d][n - 1].x
              IN /\ log[d][n - 1].op = "lookupOk"
                 /\ nameCache[key].name
                      = sanitizeFolderName(IF raw # <<>> THEN raw ELSE Str_UnknownGroup)
                 /\ nameCache[key].name = log[d][n].x
                 /\ nameCache[key].ts = log[d][n].t
                 /\ nameCache[key].ts <= now
         /\ \A dn \in StoresOf(g) : log[dn[1]][dn[2]].t <= nameCache[key].ts
  /\ \A g \in ConversationIds :
       StoresOf(g) # {} => Str_groupKey \o g \in DOMAIN nameCache
  /\ \A d \in Deliveries : \A n \in Ns(d) :
       log[d][n].op = "cacheSet" =>
         /\ n < Len(log[d])
         /\ log[d][n + 1].op = "folder"
         /\ log[d][n + 1].x
              = GroupFolder(log[d][n].x, h[d].events[log[d][n].i].source.groupId)

\* two deliveries looked the same group up at the same time, got different
\* names, and the cache holds one of them
C15_Witness ==
  \E g \in ConversationIds : \E s1, s2 \in StoresOf(g) :
    /\ s1[1] # s2[1]
    /\ log[s1[1]][s1[2]].t = 0 /\ log[s2[1]][s2[2]].t = 0
    /\ log[s1[1]][s1[2]].x # log[s2[1]][s2[2]].x
    /\ nameCache[Str_groupKey \o g].name = log[s2[1]][s2[2]].x
    /\ DOMAIN nameCache = {Str_groupKey \o g}

\* ------------------------------------------------------------- C16
\* C16: for every display name, sanitizeFolderName returns a string without
\* any of \ / : * ? " < > |, without two whitespace characters in a row, and
\* of at most 80 characters.
C16_SanitizedName ==
  call.fn = "sanitizeFolderName" =>
    /\ \A k \in 1..Len(call.out) : call.out[k] \notin Illegal
    /\ \A k \in 1..(Len(call.out) - 1) :
         ~(call.out[k] \in WhiteSpace /\ call.out[k + 1] \in WhiteSpace)
    /\ Len(call.out) <= 80

\* a name of more than 80 characters with an illegal character and a run of
\* whitespace was cut to 80 characters
C16_Witness ==
  /\ call.fn = "sanitizeFolderName"
  /\ Len(call.arg) > 80
  /\ \E k \in 1..Len(call.arg) : call.arg[k] \in Illegal
  /\ \E k \in 1..(Len(call.arg) - 1) :
       call.arg[k] \in WhiteSpace /\ call.arg[k + 1] \in WhiteSpace
  /\ Len(call.out) = 80

\* ------------------------------------------------------------- C17
\* the number that a string of decimal digits writes (-1 when it is not one)
RECURSIVE NumberOf(_)
NumberOf(s) ==
  LET digit == [c \in {"0", "1", "2", "3", "4", "5", "6", "7", "8", "9"} |->
                  CHOOSE v \in 0..9 : <<"0", "1", "2", "3", "4", "5", "6", "7", "8", "9">>[v + 1] = c]
  IN IF s = <<>> \/ \E k \in 1..Len(s) : s[k] \notin DOMAIN digit THEN -1
     ELSE IF Len(s) = 1 THEN digit[s[1]]
     ELSE (10 * NumberOf(SubSeq(s, 1, Len(s) - 1))) + digit[s[Len(s)]]

Str_example ==
  <<"2", "0", "2", "4", "-", "0", "1", "-", "1", "5", "_", "1", "0", "-", "3", "0", "-",
    "0", "0", "_", "1", "2", "3", "4", "5", ".", "j", "p", "g">>

\* C17: the file name is YYYY-MM-DD_HH-mm-ss_messageId.ext, the five fields
\* after the year each of two digits, all of them the reading of the clock
\* passed to makeFileName; messageId 12345 at 2024-01-15T10:30:00 with the
\* default extension gives 2024-01-15_10-30-00_12345.jpg.
C17_FileNameFormat ==
  call.fn = "makeFileName" =>
    LET o == call.out
        d == DateParts(call.t)
    IN /\ Len(o) = 20 + Len(call.arg) + 1 + Len(call.ext)
       /\ o[5] = "-" /\ o[8] = "-" /\ o[11] = "_" /\ o[14] = "-" /\ o[17] = "-"
       /\ o[20] = "_"
       /\ NumberOf(SubSeq(o, 1, 4)) = d.year
       /\ NumberOf(SubSeq(o, 6, 7)) = d.month
       /\ NumberOf(SubSeq(o, 9, 10)) = d.date
       /\ NumberOf(SubSeq(o, 12, 13)) = d.hours
       /\ NumberOf(SubSeq(o, 15, 16)) = d.minutes
       /\ NumberOf(SubSeq(o, 18, 19)) = d.seconds
       /\ SubSeq(o, 21, Len(o)) = call.arg \o <<".">> \o call.ext
       /\ call.ext \in {Str_jpg, Str_png, Str_webp}
       /\ (call.arg = M1 /\ call.t = 0 /\ call.ext = Str_jpg) => o = Str_example

\* message 77 fetched as image/png at 00:00:07 of the next day
C17_Witness ==
  /\ call.fn = "makeFileName"
  /\ call.out = <<"2", "0", "2", "4", "-", "0", "1", "-", "1", "6", "_", "0", "0", "-",
                  "0", "0", "-", "0", "7", "_", "7", "7", ".", "p", "n", "g">>

\* ------------------------------------------------------------- C18
\* the last six characters of an identifier of six characters or more
Last6(id) == SubSeq(id, Len(id) - 5, Len(id))

\* the sanitized name that the resolution of event i used: the one its call
\* returned and stored
NameOf(d, i) ==
  LET n == CHOOSE m \in Ns(d) : log[d][m].i = i /\ log[d][m].op = "cacheSet"
  IN log[d][n].x

\* C18: getSourceFolder returns one folder name per source: private for a
\* user; group_{sanitized name}_{last 6 of the id} for a group with an id whose
\* name is available (group_{last 6} when the lookup failed); room_{last 6 of
\* the id} for a room with an id, without any lookup; unknown for every other
\* source (no type, group or room without an id).
C18_FolderOfSource ==
  \A d \in Deliveries : \A i \in Idx(d) :
    Has(d, i, "folder") =>
      LET src == h[d].events[i].source
          folder == FolderOf(d, i)
          called == Has(d, i, "lookup") \/ Has(d, i, "cacheHit")
      IN /\ Count(d, i, "folder") = 1
         /\ src.type = "user" => folder = Str_private /\ ~called
         /\ (src.type = "group" /\ src.groupId # <<>>) =>
              /\ Has(d, i, "lookupOk") =>
                   folder = <<"g", "r", "o", "u", "p", "_">> \o NameOf(d, i)
                              \o <<"_">> \o Last6(src.groupId)
              /\ Has(d, i, "cacheHit") =>
                   \E d2 \in Deliveries : \E j \in Idx(d2) :
                     /\ Has(d2, j, "cacheSet")
                     /\ h[d2].events[j].source.groupId = src.groupId
                     /\ folder = <<"g", "r", "o", "u", "p", "_">> \o NameOf(d2, j)
                                   \o <<"_">> \o Last6(src.groupId)
              /\ Has(d, i, "lookupFail") =>
                   folder = <<"g", "r", "o", "u", "p", "_">> \o Last6(src.groupId)
              /\ called
         /\ (src.type = "room" /\ src.roomId # <<>>) =>
              /\ folder = <<"r", "o", "o", "m", "_">> \o Last6(src.roomId)
              /\ ~called
         /\ ( /\ src.type # "user"
              /\ ~(src.type = "group" /\ src.groupId # <<>>)
              /\ ~(src.type = "room" /\ src.roomId # <<>>) ) =>
              folder = <<"u", "n", "k", "n", "o", "w", "n">> /\ ~called

\* a group whose name "a/  b" was looked up, then a room without an id
C18_Witness ==
  \E d \in Deliveries :
    /\ Len(h[d].events) = 2
    /\ Has(d, 1, "folder") /\ Has(d, 2, "folder")
    /\ FolderOf(d, 1) = <<"g", "r", "o", "u", "p", "_", "a", "_", " ", "b", "_",
                          "a", "b", "c", "d", "e", "1">>
    /\ h[d].events[2].source.type = "room"
    /\ FolderOf(d, 2) = Str_unknown

\* ------------------------------------------------------------- C19
\* within one event no call is made a second time
NoRetry ==
  \A d \in Deliveries : \A i \in Idx(d) :
    /\ Count(d, i, "lookup") <= 1
    /\ Count(d, i, "fetch") <= 1
    /\ Count(d, i, "open") <= 1
    /\ Count(d, i, "dir") <= 1
    /\ CountK(d, i, "push", "saved") <= 1
    /\ CountK(d, i, "push", "error") <= 1

\* C19: when every call that is in flight eventually completes or fails, the
\* handler of a delivered batch eventually finishes, every event of the batch
\* being then over (done or failed); and within one event no call is repeated
\* after it failed.
C19_BatchFinishes ==
  /\ \A d \in Deliveries :
       (h[d].pc \notin {"idle", "refused"})
         ~> (h[d].pc = "done" /\ \A i \in Idx(d) : Over(d, i))
  /\ []NoRetry

\* the batch is finished although the lookup of its first event and the fetch
\* of its second event failed
C19_Witness ==
  \E d \in Deliveries :
    /\ h[d].pc = "done"
    /\ Len(h[d].events) = 2
    /\ Has(d, 1, "lookupFail") /\ Count(d, 1, "lookup") = 1
    /\ Has(d, 2, "fetchFail") /\ Count(d, 2, "fetch") = 1
    /\ Failed(d, 2)

\* ------------------------------------------------------------- C20
\* C20 (as claimed): in the variant of part_002 (first script) no group or room
\* conversation receives a message: for an event whose source is a group or a
\* room no replyMessage is made with its token, and no pushMessage goes to a
\* group id or a room id.
C20_GroupsNeverMessaged ==
  \A d \in Deliveries : \A n \in Ns(d) :
    LET e == log[d][n]
    IN /\ e.op = "reply" => h[d].events[e.i].source.type \notin {"group", "room"}
       /\ e.op = "push" => e.x \notin {G1, G2, R1}

\* ------------------------------------------------------------- C21
\* C21 (as claimed): in the variant of part_000 a rejected getGroupSummary or
\* getRoomSummary does not fail the event: getSourceFolder returns group_{id}
\* or room_{id}, the catch block is not entered for the lookup, and the
\* handler goes on to save the image.
C21_LookupFailureStillSaves ==
  \A d \in Deliveries : \A n \in Ns(d) :
    log[d][n].op = "lookupFail" =>
      LET i == log[d][n].i
          src == h[d].events[i].source
      IN /\ ~HasK(d, i, "caught", "lookup")
         /\ n < Len(log[d])
         /\ log[d][n + 1].i = i
         /\ log[d][n + 1].op = "folder"
         /\ log[d][n + 1].x = IF src.type = "group" THEN Str_group_ \o src.groupId
                                                    ELSE Str_room_ \o src.roomId

\* ------------------------------------------------------------- C22
\* C22 (as claimed): in the second script of part_002, saved files are
\* write-once: over any deliveries, a redelivery of a message id after its
\* dedup entry has expired included, no path is opened for writing twice.
C22_WriteOncePart002B == \A path \in DOMAIN files : files[path].opens <= 1

\* ------------------------------------------------------------- C23
\* the ids in the dedup set when entry n of delivery d is written by a step
SeenAt(d, n) ==
  seenMessageIds \cup {log'[d][m].x : m \in {k \in NewNs(d) : k < n /\ log'[d][k].op = "remember"}}

\* the times at which id was remembered, in the log of delivery d up to entry n
RememberedAt(L, d, n, id) ==
  {L[d][m].t : m \in {k \in 1..n : L[d][k].op = "remember" /\ L[d][k].x = id}}

\* an event that was skipped as a duplicate did nothing else
C23_Skipped ==
  \A d \in Deliveries : \A i \in Idx(d) :
    Has(d, i, "dup") =>
      \A n \in Ns(d) : log[d][n].i = i => log[d][n].op \in {"branch", "dup", "end"}

\* the dedup set holds exactly the ids whose timer is pending, one timer each
C23_SetAndTimers ==
  /\ seenMessageIds = {t.id : t \in timers}
  /\ \A t1, t2 \in timers : t1.id = t2.id => t1 = t2
  /\ \A t \in timers : t.due <= now + DEDUP_TTL_MS

\* what one step does to the dedup set
C23_Step ==
  /\ \A d \in Deliveries : \A n \in NewNs(d) :
       LET e == log'[d][n]
           others == Deliveries \ {d}
       IN /\ (e.op = "branch" /\ e.k = "image") =>
               LET id == h'[d].events[e.i].message.id
               IN /\ log'[d][n + 1].x = id
                  /\ log'[d][n + 1].op = IF id \in SeenAt(d, n) THEN "dup" ELSE "remember"
          /\ e.op = "dup" =>
               /\ e.x \in SeenAt(d, n)
               /\ \E d2 \in Deliveries :
                    \E t \in RememberedAt(log', d2, IF d2 = d THEN n ELSE Len(log[d2]), e.x) :
                      now - t < DEDUP_TTL_MS
               /\ (\A m \in NewNs(d) : log'[d][m].op # "remember") =>
                    UNCHANGED <<nameCache, seenMessageIds, timers, dirs, files>>
          /\ e.op = "remember" =>
               /\ e.x \notin SeenAt(d, n)
               /\ e.x \in seenMessageIds'
               /\ [id |-> e.x, due |-> now + DEDUP_TTL_MS] \in timers'
               /\ \A d2 \in Deliveries :
                    \A t \in RememberedAt(log', d2, IF d2 = d THEN n - 1 ELSE Len(log[d2]), e.x) :
                      now - t >= DEDUP_TTL_MS
  /\ seenMessageIds' # seenMessageIds =>
       \/ \E d \in Deliveries : \E n \in NewNs(d) : log'[d][n].op = "remember"
       \/ \E t \in timers :
            /\ t.due <= now
            /\ seenMessageIds' = seenMessageIds \ {t.id}
            /\ timers' = timers \ {t}
            /\ log' = log

\* C23: an image event whose message id is in the dedup set is skipped with
\* no effect (no lookup, directory, fetch, write or outbound message); an id
\* enters the set when its first image event is handled, leaves it 10 minutes
\* later, and an event with that id is then handled again as new.
C23_DedupWindow == [](C23_Skipped /\ C23_SetAndTimers) /\ [][C23_Step]_vars

\* a redelivery inside the window was skipped, the first delivery was handled
C23_Witness ==
  \E d1, d2 \in Deliveries :
    /\ d1 # d2
    /\ Has(d1, 1, "remember") /\ Has(d1, 1, "fetch")
    /\ Has(d2, 1, "dup") /\ h[d2].pc = "done"
    /\ h[d1].events[1].message.id = h[d2].events[1].message.id

\* a redelivery after the window was handled as new
C23_HandledAgain ==
  \E d1, d2 \in Deliveries :
    /\ d1 # d2
    /\ h[d1].events # <<>> /\ h[d2].events # <<>>
    /\ h[d1].events[1].message.id = h[d2].events[1].message.id
    /\ Has(d1, 1, "remember") /\ Has(d2, 1, "remember") /\ Has(d2, 1, "fetch")

\* ------------------------------------------------------------- C24
\* the entry at which event i entered the catch block
CaughtAt(d, i) == CHOOSE n \in Ns(d) : log[d][n].i = i /\ log[d][n].op = "caught"

\* the push of the catch block of event i has settled
ErrPushSettled(d, i) == HasK(d, i, "pushOk", "error") \/ HasK(d, i, "pushFail", "error")

\* C24: when the handling of an event fails, exactly one error push to
\* ADMIN_USER_ID is attempted for it, nothing is sent to the sender or to the
\* group or room after the failure, a failure of the error push is swallowed,
\* and the handler goes on with the next event.
C24_FailureReportedOnce ==
  \A d \in Deliveries : \A i \in Idx(d) :
    /\ ~Failed(d, i) => CountK(d, i, "push", "error") = 0
    /\ Failed(d, i) =>
         LET c == CaughtAt(d, i)
         IN /\ Count(d, i, "caught") = 1
            /\ CountK(d, i, "push", "error") = 1
            /\ log[d][c + 1] = [i |-> i, op |-> "push", k |-> "error",
                                x |-> ADMIN_USER_ID, t |-> 0]
            /\ \A n \in Ns(d) :
                 (n > c + 1 /\ log[d][n].i = i) =>
                   /\ n = c + 2
                   /\ log[d][n].op \in {"pushOk", "pushFail"}
                   /\ log[d][n].k = "error"
            /\ ErrPushSettled(d, i) =>
                 IF i < Len(h[d].events)
                 THEN Started(d, i + 1)
                 ELSE h[d].pc = "done" /\ h[d].i = i + 1

\* the image of a group failed, its error push failed too, and the next event
\* of the batch was handled
C24_Witness ==
  \E d \in Deliveries :
    /\ Len(h[d].events) = 2
    /\ h[d].events[1].source.type = "group"
    /\ Failed(d, 1)
    /\ HasK(d, 1, "pushFail", "error")
    /\ Over(d, 2)
    /\ h[d].pc = "done"

\* ------------------------------------------------------------- C25
\* the log entries of event i of delivery d that test or fill the dedup set
DedupEntries(d, i) ==
  {n \in Ns(d) : log[d][n].i = i /\ log[d][n].op \in {"remember", "dup"}}

\* the steps of the save pipeline
IsPipeline(e) ==
  e.op \in {"lookup", "cacheHit", "folder", "dir", "fetch", "open", "written", "copyFail"}

\* C25: the message id is in the dedup set before the save pipeline starts
\* and stays there when the pipeline fails: within 10 minutes of the first
\* handling, every redelivery of the image event is ignored and the image is
\* neither fetched nor written again.
C25_FailedSaveNotRetried ==
  \A d \in Deliveries : \A i \in Idx(d) :
    /\ \A n \in Ns(d) :
         (log[d][n].i = i /\ IsPipeline(log[d][n])) =>
           \E m \in 1..(n - 1) : log[d][m].i = i /\ log[d][m].op = "remember"
    /\ \A n \in DedupEntries(d, i) :
         (log[d][n].op = "remember" /\ Failed(d, i)) =>
           /\ now - log[d][n].t < DEDUP_TTL_MS => log[d][n].x \in seenMessageIds
           /\ \A d2 \in Deliveries \ {d} : \A i2 \in Idx(d2) : \A n2 \in DedupEntries(d2, i2) :
                ( /\ log[d2][n2].x = log[d][n].x
                  /\ log[d2][n2].t >= log[d][n].t
                  /\ log[d2][n2].t - log[d][n].t < DEDUP_TTL_MS )
                => /\ log[d2][n2].op = "dup"
                   /\ \A m \in Ns(d2) : log[d2][m].i = i2 => ~IsPipeline(log[d2][m])

\* the fetch of an image failed and its redelivery, within the window, was ignored
C25_Witness ==
  \E d, d2 \in Deliveries :
    /\ d # d2
    /\ Has(d, 1, "fetchFail") /\ Failed(d, 1) /\ h[d].pc = "done"
    /\ Has(d2, 1, "dup") /\ h[d2].pc = "done"
    /\ h[d].events[1].message.id = h[d2].events[1].message.id
    /\ h[d].events[1].message.id \in seenMessageIds
    /\ \A path \in DOMAIN files : files[path].opens = 0

\* ------------------------------------------------------------- C26
\* event i of delivery d ran some step of the save pipeline
RanPipeline(d, i) == \E n \in Ns(d) : log[d][n].i = i /\ IsPipeline(log[d][n])

\* the time at which event i of delivery d tested the dedup set
TestedAt(d, i) == log[d][CHOOSE n \in DedupEntries(d, i) : TRUE].t

\* the events that tested the dedup set for the message id id
TestsOf(id) ==
  {p \in Deliveries \X (1..MaxImages) :
     /\ p[2] \in Idx(p[1])
     /\ DedupEntries(p[1], p[2]) # {}
     /\ h[p[1]].events[p[2]].message.id = id}

\* among the events with one message id that test the dedup set less than 10
\* minutes apart, at most one runs the save pipeline, with one fetch and one open
C26_OnePipeline ==
  \A d \in Deliveries : \A i \in Idx(d) :
    /\ Count(d, i, "fetch") <= 1
    /\ Count(d, i, "open") <= 1
    /\ Cardinality(DedupEntries(d, i)) <= 1
    /\ (IsImage(h[d].events[i]) /\ RanPipeline(d, i)) =>
         \A p \in TestsOf(h[d].events[i].message.id) \ {<<d, i>>} :
           ( /\ TestedAt(p[1], p[2]) - TestedAt(d, i) < DEDUP_TTL_MS
             /\ TestedAt(d, i) - TestedAt(p[1], p[2]) < DEDUP_TTL_MS )
           => ~RanPipeline(p[1], p[2])

\* the test of the dedup set and the insertion happen in one step
C26_TestAndInsert ==
  \A d \in Deliveries : \A n \in NewNs(d) :
    (log'[d][n].op = "branch" /\ log'[d][n].k = "image") =>
      /\ n + 1 \in NewNs(d)
      /\ log'[d][n + 1].op \in {"remember", "dup"}
      /\ h'[d].events[log'[d][n].i].message.id \in seenMessageIds'

\* C26: when two deliveries of an image event with the same message id are
\* handled concurrently, at most one runs the save pipeline: the membership
\* test and the insertion are one step, and among the deliveries of one
\* 10-minute window there is at most one fetch and one file write per id.
C26_ConcurrentDedup == [](C26_OnePipeline) /\ [][C26_TestAndInsert]_vars

\* a redelivery was ignored while the fetch of the first delivery was pending
C26_Witness ==
  \E d1, d2 \in Deliveries :
    /\ d1 # d2
    /\ h[d1].pc = "fetch"
    /\ Has(d2, 1, "dup")
    /\ h[d1].events[1].message.id = h[d2].events[1].message.id
    /\ TestedAt(d1, 1) = TestedAt(d2, 1)

\* ------------------------------------------------------------- C27
\* the first entry of event i with operation op and kind k (0: none)
FirstK(d, i, op, k) ==
  LET ns == {n \in Ns(d) : log[d][n].i = i /\ log[d][n].op = op /\ log[d][n].k = k}
  IN IF ns = {} THEN 0 ELSE CHOOSE n \in ns : \A m \in ns : n <= m

\* C27: the sender of an image in a private chat is answered only after the
\* file was written and the push to the administrator succeeded; when that
\* push fails after a successful save, no reply is sent although the image
\* is stored.
C27_ReplyNeedsPush ==
  \A d \in Deliveries : \A i \in Idx(d) :
    /\ HasK(d, i, "reply", "image") =>
         /\ h[d].events[i].source.type = "user"
         /\ 0 < FirstK(d, i, "written", "")
         /\ FirstK(d, i, "written", "") < FirstK(d, i, "pushOk", "saved")
         /\ FirstK(d, i, "pushOk", "saved") < FirstK(d, i, "reply", "image")
    /\ HasK(d, i, "pushFail", "saved") =>
         /\ Has(d, i, "written")
         /\ ~Has(d, i, "reply")
         /\ PathOf(d, i) \in DOMAIN files
         /\ files[PathOf(d, i)].state = "complete"

\* the image of a private chat was stored, the push failed, the event is over
\* and the sender was not answered
C27_Witness ==
  \E d \in Deliveries : \E i \in Idx(d) :
    /\ h[d].events[i].source.type = "user"
    /\ h[d].events[i].replyToken # <<>>
    /\ HasK(d, i, "pushFail", "saved")
    /\ files[PathOf(d, i)].state = "complete"
    /\ h[d].pc = "done"
    /\ ~Has(d, i, "reply")

\* ------------------------------------------------------------- C28
\* event i of delivery d resolved the name of group g (from the cache or by a call)
ResolutionOf(d, i, g) ==
  \E n \in Ns(d) : log[d][n].i = i /\ IsResolution(log[d][n]) /\ log[d][n].x = g

\* the time at which event i of delivery d started its resolution
ResolvedAt(d, i) ==
  log[d][CHOOSE n \in Ns(d) : log[d][n].i = i /\ IsResolution(log[d][n])].t

\* event j is the first event after i, in delivery d, that resolves group g
NextResolution(d, i, j, g) ==
  /\ i < j
  /\ ResolutionOf(d, j, g)
  /\ \A k \in Idx(d) : (i < k /\ k < j) => ~ResolutionOf(d, k, g)

\* every resolution of g outside delivery d started before d arrived: it is
\* that of the first event of an earlier delivery
OthersStartedBefore(d, g) ==
  \A d2 \in Deliveries \ {d} : \A k \in Idx(d2) :
    ResolutionOf(d2, k, g) => (d2 < d /\ k = 1)

\* what a step does to the name cache
C28_Step ==
  /\ \A d \in Deliveries : \A n \in NewNs(d) :
       log'[d][n].op = "lookupFail" =>
         /\ nameCache' = nameCache
         /\ log'[d][n + 1].op = "folder"
         /\ log'[d][n + 1].x = Str_group_ \o SliceTail(log'[d][n].x, 6)
  /\ \A key \in DOMAIN nameCache : key \in DOMAIN nameCache'
  /\ \A key \in DOMAIN nameCache' :
       (key \notin DOMAIN nameCache \/ nameCache'[key] # nameCache[key]) =>
         \E d \in Deliveries : \E n \in NewNs(d) :
           /\ log'[d][n].op = "cacheSet"
           /\ log'[d][n - 1].op = "lookupOk"
           /\ CacheKey(h'[d].events[log'[d][n].i].source.groupId) = key

\* C28 (as claimed, where the order of the resolutions is known): after a
\* failed lookup the next resolution for the group calls getGroupSummary again.
C28_NextResolutionCallsAgain ==
  \A d \in Deliveries : \A i, j \in Idx(d) :
    LET g == h[d].events[i].source.groupId
    IN ( /\ Has(d, i, "lookupFail")
         /\ NextResolution(d, i, j, g)
         /\ OthersStartedBefore(d, g) )
       => Has(d, j, "lookup")

\* after a failed lookup the next resolution of the delivery calls again, or
\* is served an entry that a lookup of another delivery has stored meanwhile
C28_NextResolution ==
  \A d \in Deliveries : \A i, j \in Idx(d) :
    LET g == h[d].events[i].source.groupId
    IN (Has(d, i, "lookupFail") /\ NextResolution(d, i, j, g)) =>
         \/ Has(d, j, "lookup")
         \/ /\ Has(d, j, "cacheHit")
            /\ \E d2 \in Deliveries \ {d} : \E n \in Ns(d2) :
                 /\ log[d2][n].op = "cacheSet"
                 /\ h[d2].events[log[d2][n].i].source.groupId = g
                 /\ ResolvedAt(d, i) <= log[d2][n].t
                 /\ ResolvedAt(d, j) - log[d2][n].t < CACHE_TTL_MS

\* C28 (amended): a failed group lookup leaves the name cache unchanged (an
\* expired entry keeps its name and timestamp and is not served), an entry is
\* only written after a successful lookup and never removed, and the next
\* resolution for the group calls getGroupSummary again unless a lookup of a
\* concurrently handled event has succeeded meanwhile and stored a fresh entry.
C28_FailedLookupKeepsCache == [](C28_NextResolution) /\ [][C28_Step]_vars

\* the lookup of the first image failed, the lookup of an earlier delivery
\* succeeded, and the second image was served the cached name
C28_Witness ==
  \E d, d2 \in Deliveries :
    /\ d2 < d
    /\ Has(d, 1, "lookupFail")
    /\ Has(d2, 1, "cacheSet")
    /\ Len(h[d].events) = 2
    /\ Has(d, 2, "cacheHit")

\* a lookup failed while the cache held an expired entry, which was kept
C28_ExpiredKept ==
  \E d, d2 \in Deliveries :
    /\ Has(d2, 1, "cacheSet")
    /\ Has(d, 1, "lookupFail")
    /\ ResolvedAt(d, 1) >= CACHE_TTL_MS
    /\ nameCache[CacheKey(G1)].ts = 0

\* ------------------------------------------------------------- C29
\* C29 (as claimed): for every display name, the string returned by
\* sanitizeFolderName has no leading and no trailing whitespace, also when
\* the name is longer than 80 characters and is truncated.
C29_NoOuterWhitespace ==
  (call.fn = "sanitizeFolderName" /\ call.out # <<>>) =>
    /\ call.out[1] \notin WhiteSpace
    /\ call.out[Len(call.out)] \notin WhiteSpace

====
